---- MODULE Spec2Model ----
(***************************************************************************)
(* Model of the balcaoDeNegocios REST API: the credential store            *)
(* (usuarios), the companies table (empresas), the JWT middleware          *)
(* `autenticar`, and the handlers of routes/auth.js and routes/empresas.js.*)
(*                                                                         *)
(* Every handler is an async function: the code between two `await`s on    *)
(* the datastore runs without interruption (single event loop), and each   *)
(* datastore statement is atomic.  A handler is therefore modelled as one  *)
(* action per datastore statement, each action containing the local code   *)
(* that precedes the statement (validation, bcrypt, jwt) and, for the last *)
(* one, the response.  Requests run in the slots Reqs and interleave at    *)
(* the statements.                                                         *)
(*                                                                         *)
(* Text values (names, emails, passwords, CNPJs) are sequences of          *)
(* one-character strings, so that length, the email regular expression     *)
(* and the digit filter are computed as the code computes them.  Response  *)
(* messages are written without diacritics.                                *)
(***************************************************************************)
EXTENDS Integers, Sequences, FiniteSets, TLC

(***************************************************************************)
(* The fields of the records of the model, in one fixed order.  TLC keeps  *)
(* the fields of a record in the order in which their names first occur in *)
(* the module; every record below lists its fields in this order, so that  *)
(* a record is built in the form in which TLC stores it.                   *)
(***************************************************************************)
Campos ==
    [op : {}, corpo : {}, cred : {}, rodou : {}, next : {}, status : {},
     sucesso : {}, mensagem : {}, dados : {}, token : {}, usuario : {},
     quando : {}, linha : {}, novaSenhaHash : {}, erro : {}, decoded : {},
     resp : {}, tabela : {}, id : {}, titulo : {}, nome : {}, setor : {},
     cnpj : {}, email : {}, senha : {}, confirmarSenha : {}, ativo : {},
     iat : {}, exp : {}, forma : {}, txt : {}, carga : {}, chave : {},
     bcrypt : {}, custo : {}, cookie : {}, authorization : {},
     senhaAtual : {}, novaSenha : {}, confirmarNovaSenha : {}, vazio : {},
     consultas : {}, total : {}, telefone : {}, cidade : {}, tipo : {}]

(***************************************************************************)
(* Bounds of the model.                                                    *)
(***************************************************************************)
\* number of request slots (requests in flight at the same time)
NumReqs == 2
\* largest value the usuarios id sequence hands out
MaxId == 3
\* largest number of tokens login issues in one behaviour
MaxTokens == 2
\* largest value the empresas id sequence hands out
MaxIdEmpresa == 2
\* largest value the contatos id sequence hands out
MaxIdContato == 2

(***************************************************************************)
(* Program constants.                                                      *)
(***************************************************************************)
\* senha.length < 6
MinSenha == 6
\* const saltRounds = 10
saltRounds == 10
\* expiresIn default '8h', in seconds (the unit of the JWT exp claim)
ExpiraPadrao == 28800
\* cnpj.length === 14
TamanhoCNPJ == 14
\* nome.length < 3
MinNomeContato == 3
\* nome.length > 100
MaxNomeContato == 100

Reqs == 1..NumReqs

(***************************************************************************)
(* Text values.                                                            *)
(***************************************************************************)
\* the empty string ""
Vazio == <<>>
\* a body field that is absent (undefined); no text value has this shape
Indefinido == <<"undefined">>

\* JavaScript truthiness of a body field: !campo
Falsy(campo) == campo = Vazio \/ campo = Indefinido

Nome == <<"A", "n", "a">>
EmailA == <<"a", "@", "x", ".", "c">>
\* the same address in another case
EmailAMaiusc == <<"A", "@", "x", ".", "c">>
EmailB == <<"b", "@", "x", ".", "c">>
\* malformed addresses
EmailSemPonto == <<"a", "@", "x">>
EmailComEspaco == <<"a", " ", "@", "x", ".", "c">>
EmailDoisArrobas == <<"a", "@", "@", "x", ".", "c">>
EmailPontoFinal == <<"a", "@", "x", ".">>

SenhaCurta == <<"a", "b", "c">>
Senha1 == <<"a", "b", "c", "d", "e", "f">>
Senha2 == <<"u", "v", "w", "x", "y", "z", "0">>
\* two passwords of 73 characters that differ only in the last one
SenhaLongaA == [i \in 1..73 |-> IF i = 73 THEN "a" ELSE "x"]
SenhaLongaB == [i \in 1..73 |-> IF i = 73 THEN "b" ELSE "x"]

\* \s of the regular expression
Espacos == {" ", "\t", "\n", "\r"}

\* /^[^\s@]+@[^\s@]+\.[^\s@]+$/.test(email)
EmailRegexTest(email) ==
    LET n == Len(email)
        arrobas == {i \in 1..n : email[i] = "@"}
    IN  /\ email # Indefinido
        /\ \A i \in 1..n : email[i] \notin Espacos
        /\ Cardinality(arrobas) = 1
        /\ \E p \in arrobas :
              /\ p > 1
              /\ \E q \in (p + 2)..(n - 1) : email[q] = "."

(***************************************************************************)
(* bcrypt.  The hash is an opaque value from which only `compare` can      *)
(* tell whether a plaintext matches.  The algorithm reads the first 72     *)
(* bytes of the plaintext and no more (the texts of the model are ASCII,   *)
(* one byte per character).                                                *)
(***************************************************************************)
\* the number of bytes of the plaintext that bcrypt reads
BcryptMaxBytes == 72

\* the part of a plaintext that bcrypt reads
BcryptEntrada(senha) ==
    IF Len(senha) <= BcryptMaxBytes THEN senha ELSE SubSeq(senha, 1, BcryptMaxBytes)

\* bcrypt.hash(senha, saltRounds)
BcryptHash(senha, custo) == [bcrypt |-> BcryptEntrada(senha), custo |-> custo]

\* bcrypt.compare(senha, hash)
BcryptCompare(senha, hash) == hash.bcrypt = BcryptEntrada(senha)

(***************************************************************************)
(* Responses: res.status(s).json({sucesso, mensagem, ...}).                *)
(***************************************************************************)
Resp(status, mensagem) ==
    [status |-> status, sucesso |-> status < 400, mensagem |-> mensagem]

\* no response sent yet
SemResposta == [status |-> 0]

\* an idle request slot
Ocioso == [op |-> "nenhum"]

\* no row
SemLinha == [id |-> 0]

(***************************************************************************)
(* Time.  The clock is Date.now(), in milliseconds; jsonwebtoken works in  *)
(* whole seconds, Math.floor(Date.now() / 1000).  The clock moves over the *)
(* instants that matter to a token issued on a whole second or half a      *)
(* second after it: its issue, one minute later, one hour later, half a    *)
(* second before eight hours, eight hours, and nine hours later.           *)
(***************************************************************************)
Emissoes == {0, 500}
Decorridos == {0, 60000, 3600000, 28799500, 28800000, 32400000}
Instantes == {e + d : e \in Emissoes, d \in Decorridos}

\* Math.floor(ms / 1000)
EmSegundos(ms) == ms \div 1000

(***************************************************************************)
(* jsonwebtoken.  A token is the signed payload; only its holder of the    *)
(* key can produce a token that verifies under that key.                   *)
(***************************************************************************)
\* process.env.JWT_SECRET
JWT_SECRET == "JWT_SECRET"

\* the number of seconds of an expiresIn text ('8h', '1h')
Segundos(expiresIn) == IF expiresIn = "1h" THEN 3600 ELSE ExpiraPadrao

\* jwt.sign(carga, chave, { expiresIn }) when Date.now() is t
JwtSign(carga, chave, expiresIn, t) ==
    [forma |-> "jwt",
     carga |-> [id |-> carga.id, nome |-> carga.nome, email |-> carga.email,
                iat |-> EmSegundos(t),
                exp |-> EmSegundos(t) + Segundos(expiresIn)],
     chave |-> chave]

\* mutant of JwtVerify: the signature is decoded but not verified
JwtVerifySemAssinatura(token, chave, t) ==
    IF token.forma # "jwt" THEN [erro |-> "JsonWebTokenError"]
    ELSE IF EmSegundos(t) >= token.carga.exp THEN [erro |-> "TokenExpiredError"]
    ELSE [erro |-> "nenhum", decoded |-> token.carga]

\* mutant of JwtVerify: a token is still good at the second it expires
JwtVerifyExpiraDepois(token, chave, t) ==
    IF token.forma # "jwt" THEN [erro |-> "JsonWebTokenError"]
    ELSE IF token.chave # chave THEN [erro |-> "JsonWebTokenError"]
    ELSE IF EmSegundos(t) > token.carga.exp THEN [erro |-> "TokenExpiredError"]
    ELSE [erro |-> "nenhum", decoded |-> token.carga]

\* jwt.verify(token, chave) when Date.now() is t: the decoded payload, or the
\* error thrown
JwtVerify(token, chave, t) ==
    IF token.forma # "jwt" THEN [erro |-> "JsonWebTokenError"]
    ELSE IF token.chave # chave THEN [erro |-> "JsonWebTokenError"]
    ELSE IF EmSegundos(t) >= token.carga.exp THEN [erro |-> "TokenExpiredError"]
    ELSE [erro |-> "nenhum", decoded |-> token.carga]

\* what a request can carry where a token is expected
SemToken == [forma |-> "indefinido"]
TokenVazio == [forma |-> "vazio"]
TokenLixo == [forma |-> "lixo"]
Texto(t) == [forma |-> "texto", txt |-> t]

\* !token
TokenFalsy(token) == token.forma \in {"indefinido", "vazio"}

\* the Authorization header, split at its spaces; <<>> when there is none
SemHeader == <<>>
Bearer(token) == <<Texto("Bearer"), token>>
Basic(token) == <<Texto("Basic"), token>>

\* a request without cookie and without Authorization header
SemCredencial == [cookie |-> SemToken, authorization |-> SemHeader]
ComCookie(token) == [cookie |-> token, authorization |-> SemHeader]
ComBearer(token) == [cookie |-> SemToken, authorization |-> Bearer(token)]

\* authHeader && authHeader.startsWith('Bearer ')
StartsWithBearer(authHeader) ==
    Len(authHeader) >= 2 /\ authHeader[1] = Texto("Bearer")

\* mutant of ExtrairToken: the Authorization header is consulted first
ExtrairTokenHeaderPrimeiro(cred) ==
    IF StartsWithBearer(cred.authorization)
          /\ ~TokenFalsy(cred.authorization[2])
    THEN cred.authorization[2]
    ELSE IF ~TokenFalsy(cred.cookie) THEN cred.cookie
    ELSE SemToken

\* the token the middleware takes from the request (cookie first, then header)
ExtrairToken(cred) ==
    IF ~TokenFalsy(cred.cookie) THEN cred.cookie
    ELSE IF StartsWithBearer(cred.authorization) THEN cred.authorization[2]
    ELSE SemToken

\* no req.usuario
SemUsuario == [id |-> 0]

\* mutant of Autenticar: an expired token is answered as an invalid one
AutenticarSemExpirado(cred, t) ==
    LET token == ExtrairToken(cred)
        v == JwtVerify(token, JWT_SECRET, t)
    IN  IF TokenFalsy(token)
        THEN [next |-> FALSE, usuario |-> SemUsuario,
              resp |-> Resp(401, "Token nao fornecido")]
        ELSE IF v.erro = "nenhum"
        THEN [next |-> TRUE, usuario |-> v.decoded, resp |-> SemResposta]
        ELSE [next |-> FALSE, usuario |-> SemUsuario,
              resp |-> Resp(401, "Token invalido")]

\* middleware autenticar when Date.now() is t: next() with req.usuario, or the 401 sent
Autenticar(cred, t) ==
    LET token == ExtrairToken(cred)
        v == JwtVerify(token, JWT_SECRET, t)
    IN  IF TokenFalsy(token)
        THEN [next |-> FALSE, usuario |-> SemUsuario,
              resp |-> Resp(401, "Token nao fornecido")]
        ELSE IF v.erro = "nenhum"
        THEN [next |-> TRUE, usuario |-> v.decoded, resp |-> SemResposta]
        ELSE IF v.erro = "JsonWebTokenError"
        THEN [next |-> FALSE, usuario |-> SemUsuario,
              resp |-> Resp(401, "Token invalido")]
        ELSE IF v.erro = "TokenExpiredError"
        THEN [next |-> FALSE, usuario |-> SemUsuario,
              resp |-> Resp(401, "Token expirado")]
        ELSE [next |-> FALSE, usuario |-> SemUsuario,
              resp |-> Resp(401, "Erro ao autenticar token")]

(***************************************************************************)
(* The datastore.                                                          *)
(***************************************************************************)
\* mutant of SelectUsuarioPorEmail: the comparison ignores the case of the
\* first character
SelectUsuarioPorEmailSemCaixa(tabela, email) ==
    {u \in tabela : u.email = email
                    \/ (u.email \in {EmailA, EmailAMaiusc}
                        /\ email \in {EmailA, EmailAMaiusc})}

\* SELECT ... FROM usuarios WHERE email = $1
SelectUsuarioPorEmail(tabela, email) == {u \in tabela : u.email = email}

\* SELECT ... FROM usuarios WHERE id = $1
SelectUsuarioPorId(tabela, id) == {u \in tabela : u.id = id}

\* mutant of InsertUsuario: the email column has no UNIQUE constraint
InsertUsuarioSemUnique(tabela, seq, nome, email, senha) ==
    [erro |-> "nenhum",
     tabela |-> tabela \cup {[id |-> seq, nome |-> nome, email |-> email,
                              senha |-> senha, ativo |-> TRUE]},
     id |-> seq]

\* INSERT INTO usuarios (nome, email, senha, ativo) VALUES ($1, $2, $3, TRUE)
\* RETURNING id, under id PRIMARY KEY (sequence) and email UNIQUE: the table
\* after the statement, the id returned, or the error raised.  The sequence
\* value is consumed also when the statement fails.
InsertUsuario(tabela, seq, nome, email, senha) ==
    IF \E u \in tabela : u.email = email
    THEN [erro |-> "unique_violation", tabela |-> tabela, id |-> 0]
    ELSE [erro |-> "nenhum",
          tabela |-> tabela \cup {[id |-> seq, nome |-> nome, email |-> email,
                                   senha |-> senha, ativo |-> TRUE]},
          id |-> seq]

\* mutant of UpdateSenha: the statement has no WHERE clause
UpdateSenhaSemWhere(tabela, senha, id) ==
    {[u EXCEPT !.senha = senha] : u \in tabela}

\* UPDATE usuarios SET senha = $1 WHERE id = $2
UpdateSenha(tabela, senha, id) ==
    {IF u.id = id THEN [u EXCEPT !.senha = senha] ELSE u : u \in tabela}

VARIABLES
    usuarios,          \* table usuarios: set of rows [id, nome, email, senha, ativo]
    usuarios_id_seq,   \* next value of the id sequence of usuarios
    empresas,          \* table empresas: set of rows
    empresas_id_seq,   \* next value of the id sequence of empresas
    emitidos,          \* the tokens login has signed so far, each with the
                       \* time of its signing: records [token, quando]
    agora,             \* the clock Date.now(), in milliseconds
    JWT_EXPIRES_IN,    \* process.env.JWT_EXPIRES_IN ("" when not set)
    contatos,          \* table contatos: set of rows
    contatos_id_seq,   \* next value of the id sequence of contatos
    NODE_ENV,          \* process.env.NODE_ENV ("" when not set)
    principal,         \* the file the process was started from
    processo,          \* "executando", or "encerrado" after process.exit(1)
    diario,            \* the process-level events written with console.error
    pc,                \* pc[r]: the statement request slot r waits for
    ctx,               \* ctx[r]: the local variables of the handler in slot r
    ultimo             \* the request the last step answered, with its response

vars == <<usuarios, usuarios_id_seq, empresas, empresas_id_seq, emitidos, agora,
          JWT_EXPIRES_IN, contatos, contatos_id_seq, NODE_ENV, principal,
          processo, diario, pc, ctx, ultimo>>


(***************************************************************************)
(* The record of an answered request: the operation, its body and          *)
(* credentials, whether the route handler ran and with which req.usuario,  *)
(* the time the middleware ran, the row the handler read, the error its    *)
(* catch block caught and the response sent.  `ultimo` holds the record of *)
(* the request answered by the step that led to the current state, and     *)
(* Nenhum when that step answered none.                                    *)
(***************************************************************************)
SemCorpo == [vazio |-> TRUE]

Registro(op, corpo, cred, rodou, usuario, quando, linha, erro, resp) ==
    [op |-> op, corpo |-> corpo, cred |-> cred, rodou |-> rodou,
     usuario |-> usuario, quando |-> quando, linha |-> linha, erro |-> erro,
     resp |-> resp, consultas |-> 0]

Nenhum ==
    Registro("nenhum", SemCorpo, SemCredencial, FALSE, SemUsuario, 0, SemLinha,
             "nenhum", SemResposta)

\* slot r sends its response and becomes idle; `consultas` is the number of
\* datastore statements (pool.query) the request issued before the response
Responder(r, consultas, registro) ==
    /\ pc' = [pc EXCEPT ![r] = "livre"]
    /\ ctx' = [ctx EXCEPT ![r] = Ocioso]
    /\ ultimo' = [registro EXCEPT !.consultas = consultas]

\* slot r goes on to wait for its next datastore statement
Aguardar(r, rotulo, locais) ==
    /\ pc' = [pc EXCEPT ![r] = rotulo]
    /\ ctx' = [ctx EXCEPT ![r] = locais]
    /\ ultimo' = Nenhum

Aguardando(rotulo) == Cardinality({r \in Reqs : pc[r] = rotulo})

\* a new request takes the first idle slot (the slots are interchangeable)
Livre(r) == pc[r] = "livre" /\ \A s \in 1..(r - 1) : pc[s] # "livre"

Init ==
    /\ usuarios = {}
    /\ usuarios_id_seq = 1
    /\ empresas = {}
    /\ empresas_id_seq = 1
    /\ emitidos = {}
    /\ agora = 0
    /\ JWT_EXPIRES_IN \in {"", "1h"}
    /\ contatos = {}
    /\ contatos_id_seq = 1
    /\ NODE_ENV = ""
    /\ principal = "server.js"
    /\ processo = "executando"
    /\ diario = {}
    /\ pc = [r \in Reqs |-> "livre"]
    /\ ctx = [r \in Reqs |-> Ocioso]
    /\ ultimo = Nenhum

(***************************************************************************)
(* POST /api/auth/registro                                                 *)
(***************************************************************************)
\* mutant of RegistroValidar: the length is checked before the confirmation
RegistroValidarTrocado(corpo) ==
    IF Falsy(corpo.nome) \/ Falsy(corpo.email) \/ Falsy(corpo.senha)
    THEN Resp(400, "Nome, email e senha sao obrigatorios")
    ELSE IF Len(corpo.senha) < MinSenha
    THEN Resp(400, "A senha deve ter no minimo 6 caracteres")
    ELSE IF corpo.senha # corpo.confirmarSenha
    THEN Resp(400, "As senhas nao conferem")
    ELSE IF ~EmailRegexTest(corpo.email)
    THEN Resp(400, "Email invalido")
    ELSE SemResposta

\* the validations of the body, in the order of the code: the 400 response
\* of the first one that fails, or SemResposta
RegistroValidar(corpo) ==
    IF Falsy(corpo.nome) \/ Falsy(corpo.email) \/ Falsy(corpo.senha)
    THEN Resp(400, "Nome, email e senha sao obrigatorios")
    ELSE IF corpo.senha # corpo.confirmarSenha
    THEN Resp(400, "As senhas nao conferem")
    ELSE IF Len(corpo.senha) < MinSenha
    THEN Resp(400, "A senha deve ter no minimo 6 caracteres")
    ELSE IF ~EmailRegexTest(corpo.email)
    THEN Resp(400, "Email invalido")
    ELSE SemResposta

\* the row the INSERT of the registration writes
RegistroLinha(corpo) ==
    [nome |-> corpo.nome, email |-> corpo.email,
     senha |-> BcryptHash(corpo.senha, saltRounds)]

\* from the start of the handler to the SELECT by email and what follows it,
\* up to bcrypt.hash
RegistroInicio(r, corpo) ==
    /\ Livre(r)
    /\ LET v == RegistroValidar(corpo)
           existente == SelectUsuarioPorEmail(usuarios, corpo.email)
       IN  IF v # SemResposta
           THEN Responder(r, 0, Registro("registro", corpo, SemCredencial, TRUE,
                                      SemUsuario, agora, SemLinha, "nenhum", v))
           ELSE IF Cardinality(existente) > 0
           THEN Responder(r, 1, Registro("registro", corpo, SemCredencial, TRUE,
                                      SemUsuario, agora,
                                      CHOOSE u \in existente : TRUE, "nenhum",
                                      Resp(409, "Email ja cadastrado")))
           ELSE /\ usuarios_id_seq + Aguardando("registro_inserir") <= MaxId
                /\ Aguardar(r, "registro_inserir",
                            [op |-> "registro", corpo |-> corpo,
                             linha |-> RegistroLinha(corpo)])
    /\ UNCHANGED <<usuarios, usuarios_id_seq, empresas, empresas_id_seq,
                   emitidos, agora, JWT_EXPIRES_IN,
                   contatos, contatos_id_seq, NODE_ENV, principal,
                   processo, diario>>

\* the INSERT and the response: 201 with the id, or the catch block's 500
RegistroInserir(r) ==
    /\ pc[r] = "registro_inserir"
    /\ LET l == ctx[r].linha
           res == InsertUsuario(usuarios, usuarios_id_seq, l.nome, l.email, l.senha)
       IN  /\ usuarios' = res.tabela
           /\ usuarios_id_seq' = usuarios_id_seq + 1
           /\ IF res.erro = "nenhum"
              THEN Responder(r, 2, Registro("registro", ctx[r].corpo, SemCredencial,
                                         TRUE, SemUsuario, agora, SemLinha, "nenhum",
                                         [status |-> 201, sucesso |-> TRUE,
                                          mensagem |-> "Usuario registrado com sucesso",
                                          id |-> res.id]))
              ELSE Responder(r, 2, Registro("registro", ctx[r].corpo, SemCredencial,
                                         TRUE, SemUsuario, agora, SemLinha, res.erro,
                                         Resp(500, "Erro ao registrar usuario")))
    /\ UNCHANGED <<empresas, empresas_id_seq, emitidos, agora, JWT_EXPIRES_IN,
                   contatos, contatos_id_seq, NODE_ENV, principal,
                   processo, diario>>

(***************************************************************************)
(* POST /api/auth/login                                                    *)
(***************************************************************************)
\* mutant of Resumo: the summary carries the stored hash
ResumoComSenha(linha) ==
    [id |-> linha.id, nome |-> linha.nome, email |-> linha.email,
     senha |-> linha.senha]

\* the public summary of a row: { id, nome, email }
Resumo(linha) == [id |-> linha.id, nome |-> linha.nome, email |-> linha.email]

\* mutant of LoginDecidir: only the email is required
LoginDecidirSoEmail(corpo, linhas) ==
    IF Falsy(corpo.email)
    THEN Resp(400, "Email e senha sao obrigatorios")
    ELSE IF Cardinality(linhas) = 0
    THEN Resp(401, "Email ou senha incorretos")
    ELSE IF ~(CHOOSE u \in linhas : TRUE).ativo
    THEN Resp(403, "Usuario inativo. Entre em contato com o administrador")
    ELSE SemResposta

\* mutant of LoginDecidir: the active flag is not looked at
LoginDecidirSemAtivo(corpo, linhas) ==
    IF Falsy(corpo.email) \/ Falsy(corpo.senha)
    THEN Resp(400, "Email e senha sao obrigatorios")
    ELSE IF Cardinality(linhas) = 0
    THEN Resp(401, "Email ou senha incorretos")
    ELSE SemResposta

\* what the handler decides from the body and the rows of its SELECT before
\* it awaits bcrypt.compare: the response it sends, or SemResposta
LoginDecidir(corpo, linhas) ==
    IF Falsy(corpo.email) \/ Falsy(corpo.senha)
    THEN Resp(400, "Email e senha sao obrigatorios")
    ELSE IF Cardinality(linhas) = 0
    THEN Resp(401, "Email ou senha incorretos")
    ELSE IF ~(CHOOSE u \in linhas : TRUE).ativo
    THEN Resp(403, "Usuario inativo. Entre em contato com o administrador")
    ELSE SemResposta

\* mutant of LoginResponder: a wrong password has a message of its own
LoginResponderSenhaIncorreta(corpo, linha, expiresIn, t) ==
    IF ~BcryptCompare(corpo.senha, linha.senha)
    THEN Resp(401, "Senha incorreta")
    ELSE [status |-> 200, sucesso |-> TRUE,
          mensagem |-> "Login realizado com sucesso",
          token |-> JwtSign(Resumo(linha), JWT_SECRET, expiresIn, t),
          usuario |-> Resumo(linha)]

\* what the handler answers once bcrypt.compare returned, signing at time t
LoginResponder(corpo, linha, expiresIn, t) ==
    IF ~BcryptCompare(corpo.senha, linha.senha)
    THEN Resp(401, "Email ou senha incorretos")
    ELSE [status |-> 200, sucesso |-> TRUE,
          mensagem |-> "Login realizado com sucesso",
          token |-> JwtSign(Resumo(linha), JWT_SECRET, expiresIn, t),
          usuario |-> Resumo(linha)]

\* from the start of the handler to the SELECT by email and the checks of
\* its result
LoginInicio(r, corpo) ==
    /\ Livre(r)
    /\ LET linhas == IF Falsy(corpo.email) \/ Falsy(corpo.senha) THEN {}
                     ELSE SelectUsuarioPorEmail(usuarios, corpo.email)
           linha == IF linhas = {} THEN SemLinha ELSE CHOOSE u \in linhas : TRUE
           v == LoginDecidir(corpo, linhas)
       IN  IF v # SemResposta
           THEN Responder(r, IF v.status = 400 THEN 0 ELSE 1,
                          Registro("login", corpo, SemCredencial, TRUE,
                                   SemUsuario, agora, linha, "nenhum", v))
           ELSE /\ BcryptCompare(corpo.senha, linha.senha)
                     => Cardinality(emitidos) + Aguardando("login_comparar") < MaxTokens
                /\ Aguardar(r, "login_comparar",
                            [op |-> "login", corpo |-> corpo, linha |-> linha])
    /\ UNCHANGED <<usuarios, usuarios_id_seq, empresas, empresas_id_seq,
                   emitidos, agora, JWT_EXPIRES_IN,
                   contatos, contatos_id_seq, NODE_ENV, principal,
                   processo, diario>>

\* bcrypt.compare returned: the 401, or the token signed now and the 200
LoginFim(r) ==
    /\ pc[r] = "login_comparar"
    /\ LET resp == LoginResponder(ctx[r].corpo, ctx[r].linha,
                                  IF JWT_EXPIRES_IN = "" THEN "8h" ELSE JWT_EXPIRES_IN,
                                  agora)
       IN  /\ emitidos' = IF resp.status = 200
                          THEN emitidos \cup {[token |-> resp.token, quando |-> agora]}
                          ELSE emitidos
           /\ Responder(r, 1, Registro("login", ctx[r].corpo, SemCredencial, TRUE,
                                    SemUsuario, agora, ctx[r].linha, "nenhum", resp))
    /\ UNCHANGED <<usuarios, usuarios_id_seq, empresas, empresas_id_seq, agora,
                   JWT_EXPIRES_IN,
                   contatos, contatos_id_seq, NODE_ENV, principal,
                   processo, diario>>

(***************************************************************************)
(* GET /api/auth/perfil (behind autenticar)                                *)
(***************************************************************************)
\* mutant of Perfil: the response leaves the active flag out
PerfilSemAtivo(r, cred) ==
    /\ Livre(r)
    /\ LET a == Autenticar(cred, agora)
           linhas == SelectUsuarioPorId(usuarios, a.usuario.id)
           linha == IF linhas = {} THEN SemLinha ELSE CHOOSE u \in linhas : TRUE
       IN  IF ~a.next
           THEN Responder(r, 0, Registro("perfil", SemCorpo, cred, FALSE, SemUsuario,
                                      agora, SemLinha, "nenhum", a.resp))
           ELSE IF Cardinality(linhas) = 0
           THEN Responder(r, 1, Registro("perfil", SemCorpo, cred, TRUE, a.usuario,
                                      agora, SemLinha, "nenhum",
                                      Resp(404, "Usuario nao encontrado")))
           ELSE Responder(r, 1, Registro("perfil", SemCorpo, cred, TRUE, a.usuario,
                                      agora, linha, "nenhum",
                                      [status |-> 200, sucesso |-> TRUE,
                                       dados |-> [id |-> linha.id, nome |-> linha.nome,
                                                  email |-> linha.email]]))
    /\ UNCHANGED <<usuarios, usuarios_id_seq, empresas, empresas_id_seq,
                   emitidos, agora, JWT_EXPIRES_IN,
                   contatos, contatos_id_seq, NODE_ENV, principal,
                   processo, diario>>

\* mutant of Perfil: a token is refused when its account is deactivated
PerfilVerificaAtivo(r, cred) ==
    /\ Livre(r)
    /\ LET a == Autenticar(cred, agora)
           linhas == SelectUsuarioPorId(usuarios, a.usuario.id)
           linha == IF linhas = {} THEN SemLinha ELSE CHOOSE u \in linhas : TRUE
       IN  IF ~a.next \/ (linhas # {} /\ ~linha.ativo)
           THEN Responder(r, 0, Registro("perfil", SemCorpo, cred, FALSE, SemUsuario,
                                      agora, SemLinha, "nenhum",
                                      Resp(401, "Token invalido")))
           ELSE IF Cardinality(linhas) = 0
           THEN Responder(r, 1, Registro("perfil", SemCorpo, cred, TRUE, a.usuario,
                                      agora, SemLinha, "nenhum",
                                      Resp(404, "Usuario nao encontrado")))
           ELSE Responder(r, 1, Registro("perfil", SemCorpo, cred, TRUE, a.usuario,
                                      agora, linha, "nenhum",
                                      [status |-> 200, sucesso |-> TRUE,
                                       dados |-> [id |-> linha.id, nome |-> linha.nome,
                                                  email |-> linha.email,
                                                  ativo |-> linha.ativo]]))
    /\ UNCHANGED <<usuarios, usuarios_id_seq, empresas, empresas_id_seq,
                   emitidos, agora, JWT_EXPIRES_IN,
                   contatos, contatos_id_seq, NODE_ENV, principal,
                   processo, diario>>

\* mutant of Perfil: a token is refused when the password of its account is
\* no longer the one that the token's claim was signed under
PerfilVerificaSenha(r, cred) ==
    /\ Livre(r)
    /\ LET a == Autenticar(cred, agora)
           linhas == SelectUsuarioPorId(usuarios, a.usuario.id)
           linha == IF linhas = {} THEN SemLinha ELSE CHOOSE u \in linhas : TRUE
       IN  IF ~a.next \/ (linhas # {} /\ ~BcryptCompare(Senha1, linha.senha))
           THEN Responder(r, 0, Registro("perfil", SemCorpo, cred, FALSE, SemUsuario,
                                      agora, SemLinha, "nenhum",
                                      Resp(401, "Token invalido")))
           ELSE IF Cardinality(linhas) = 0
           THEN Responder(r, 1, Registro("perfil", SemCorpo, cred, TRUE, a.usuario,
                                      agora, SemLinha, "nenhum",
                                      Resp(404, "Usuario nao encontrado")))
           ELSE Responder(r, 1, Registro("perfil", SemCorpo, cred, TRUE, a.usuario,
                                      agora, linha, "nenhum",
                                      [status |-> 200, sucesso |-> TRUE,
                                       dados |-> [id |-> linha.id, nome |-> linha.nome,
                                                  email |-> linha.email,
                                                  ativo |-> linha.ativo]]))
    /\ UNCHANGED <<usuarios, usuarios_id_seq, empresas, empresas_id_seq,
                   emitidos, agora, JWT_EXPIRES_IN,
                   contatos, contatos_id_seq, NODE_ENV, principal,
                   processo, diario>>

Perfil(r, cred) ==
    /\ Livre(r)
    /\ LET a == Autenticar(cred, agora)
           linhas == SelectUsuarioPorId(usuarios, a.usuario.id)
           linha == IF linhas = {} THEN SemLinha ELSE CHOOSE u \in linhas : TRUE
       IN  IF ~a.next
           THEN Responder(r, 0, Registro("perfil", SemCorpo, cred, FALSE, SemUsuario,
                                      agora, SemLinha, "nenhum", a.resp))
           ELSE IF Cardinality(linhas) = 0
           THEN Responder(r, 1, Registro("perfil", SemCorpo, cred, TRUE, a.usuario,
                                      agora, SemLinha, "nenhum",
                                      Resp(404, "Usuario nao encontrado")))
           ELSE Responder(r, 1, Registro("perfil", SemCorpo, cred, TRUE, a.usuario,
                                      agora, linha, "nenhum",
                                      [status |-> 200, sucesso |-> TRUE,
                                       dados |-> [id |-> linha.id, nome |-> linha.nome,
                                                  email |-> linha.email,
                                                  ativo |-> linha.ativo]]))
    /\ UNCHANGED <<usuarios, usuarios_id_seq, empresas, empresas_id_seq,
                   emitidos, agora, JWT_EXPIRES_IN,
                   contatos, contatos_id_seq, NODE_ENV, principal,
                   processo, diario>>

(***************************************************************************)
(* POST /api/auth/verificar-token (no middleware)                          *)
(***************************************************************************)
\* req.headers.authorization?.split(' ')[1]
SegundaParte(authHeader) ==
    IF Len(authHeader) >= 2 THEN authHeader[2] ELSE SemToken

\* the response of the handler to a token at time t
VerificarResposta(token, t) ==
    LET v == JwtVerify(token, JWT_SECRET, t)
    IN  IF TokenFalsy(token) THEN Resp(401, "Token nao fornecido")
        ELSE IF v.erro = "nenhum"
        THEN [status |-> 200, sucesso |-> TRUE, mensagem |-> "Token valido",
              usuario |-> [id |-> v.decoded.id, nome |-> v.decoded.nome,
                           email |-> v.decoded.email]]
        ELSE Resp(401, "Token invalido ou expirado")

\* mutant of VerificarToken: the token is taken as the middleware takes it,
\* from the cookie first
VerificarTokenComCookie(r, cred) ==
    /\ Livre(r)
    /\ Responder(r, 0, Registro("verificar_token", SemCorpo, cred, TRUE, SemUsuario,
                             agora, SemLinha, "nenhum",
                             VerificarResposta(ExtrairToken(cred), agora)))
    /\ UNCHANGED <<usuarios, usuarios_id_seq, empresas, empresas_id_seq,
                   emitidos, agora, JWT_EXPIRES_IN,
                   contatos, contatos_id_seq, NODE_ENV, principal,
                   processo, diario>>

VerificarToken(r, cred) ==
    /\ Livre(r)
    /\ Responder(r, 0, Registro("verificar_token", SemCorpo, cred, TRUE, SemUsuario,
                             agora, SemLinha, "nenhum",
                             VerificarResposta(SegundaParte(cred.authorization),
                                               agora)))
    /\ UNCHANGED <<usuarios, usuarios_id_seq, empresas, empresas_id_seq,
                   emitidos, agora, JWT_EXPIRES_IN,
                   contatos, contatos_id_seq, NODE_ENV, principal,
                   processo, diario>>

(***************************************************************************)
(* GET /api/auth/usuarios (behind autenticar)                              *)
(***************************************************************************)
\* the arrays that hold each row of a result once: the order of the rows of
\* an ORDER BY on a text column is the order of the collation of the
\* database, which the program does not fix
Enumeracoes(linhas) ==
    {f \in [1..Cardinality(linhas) -> linhas] :
        \A i, j \in 1..Cardinality(linhas) : i # j => f[i] # f[j]}

\* SELECT id, nome, email, ativo FROM usuarios ORDER BY nome ASC
SelectUsuarios(tabela) ==
    Enumeracoes({[id |-> u.id, nome |-> u.nome, email |-> u.email,
                  ativo |-> u.ativo] : u \in tabela})

\* res.json({ sucesso: true, total: rows.length, dados: rows })
RespostaLista(rows) ==
    [status |-> 200, sucesso |-> TRUE, dados |-> rows, total |-> Len(rows)]

ListarUsuarios(r, cred) ==
    /\ Livre(r)
    /\ LET a == Autenticar(cred, agora)
       IN  IF ~a.next
           THEN Responder(r, 0, Registro("usuarios", SemCorpo, cred, FALSE,
                                         SemUsuario, agora, SemLinha, "nenhum",
                                         a.resp))
           ELSE \E rows \in SelectUsuarios(usuarios) :
                   Responder(r, 1, Registro("usuarios", SemCorpo, cred, TRUE,
                                            a.usuario, agora, SemLinha, "nenhum",
                                            RespostaLista(rows)))
    /\ UNCHANGED <<usuarios, usuarios_id_seq, empresas, empresas_id_seq,
                   emitidos, agora, JWT_EXPIRES_IN,
                   contatos, contatos_id_seq, NODE_ENV, principal,
                   processo, diario>>

(***************************************************************************)
(* PUT /api/auth/alterar-senha (behind autenticar)                         *)
(***************************************************************************)
\* mutant of AlterarSenhaValidar: the length is checked before the
\* confirmation
AlterarSenhaValidarTrocado(corpo) ==
    IF Falsy(corpo.senhaAtual) \/ Falsy(corpo.novaSenha)
       \/ Falsy(corpo.confirmarNovaSenha)
    THEN Resp(400, "Todos os campos sao obrigatorios")
    ELSE IF Len(corpo.novaSenha) < MinSenha
    THEN Resp(400, "A nova senha deve ter no minimo 6 caracteres")
    ELSE IF corpo.novaSenha # corpo.confirmarNovaSenha
    THEN Resp(400, "As novas senhas nao conferem")
    ELSE SemResposta

\* the validations of the body: the 400 of the first that fails, or SemResposta
AlterarSenhaValidar(corpo) ==
    IF Falsy(corpo.senhaAtual) \/ Falsy(corpo.novaSenha)
       \/ Falsy(corpo.confirmarNovaSenha)
    THEN Resp(400, "Todos os campos sao obrigatorios")
    ELSE IF corpo.novaSenha # corpo.confirmarNovaSenha
    THEN Resp(400, "As novas senhas nao conferem")
    ELSE IF Len(corpo.novaSenha) < MinSenha
    THEN Resp(400, "A nova senha deve ter no minimo 6 caracteres")
    ELSE SemResposta

\* middleware, validations, the SELECT of the stored hash, bcrypt.compare
\* and bcrypt.hash
AlterarSenhaInicio(r, cred, corpo) ==
    /\ Livre(r)
    /\ LET a == Autenticar(cred, agora)
           v == AlterarSenhaValidar(corpo)
           linhas == SelectUsuarioPorId(usuarios, a.usuario.id)
           linha == IF linhas = {} THEN SemLinha ELSE CHOOSE u \in linhas : TRUE
       IN  IF ~a.next
           THEN Responder(r, 0, Registro("alterar_senha", corpo, cred, FALSE,
                                      SemUsuario, agora, SemLinha, "nenhum", a.resp))
           ELSE IF v # SemResposta
           THEN Responder(r, 0, Registro("alterar_senha", corpo, cred, TRUE,
                                      a.usuario, agora, SemLinha, "nenhum", v))
           ELSE IF Cardinality(linhas) = 0
           THEN Responder(r, 1, Registro("alterar_senha", corpo, cred, TRUE,
                                      a.usuario, agora, SemLinha, "nenhum",
                                      Resp(404, "Usuario nao encontrado")))
           ELSE IF ~BcryptCompare(corpo.senhaAtual, linha.senha)
           THEN Responder(r, 1, Registro("alterar_senha", corpo, cred, TRUE,
                                      a.usuario, agora, linha, "nenhum",
                                      Resp(401, "Senha atual incorreta")))
           ELSE Aguardar(r, "senha_atualizar",
                         [op |-> "alterar_senha", corpo |-> corpo, cred |-> cred,
                          usuario |-> a.usuario, quando |-> agora, linha |-> linha,
                          novaSenhaHash |-> BcryptHash(corpo.novaSenha, saltRounds)])
    /\ UNCHANGED <<usuarios, usuarios_id_seq, empresas, empresas_id_seq,
                   emitidos, agora, JWT_EXPIRES_IN,
                   contatos, contatos_id_seq, NODE_ENV, principal,
                   processo, diario>>

\* the UPDATE of the hash and the 200
AlterarSenhaAtualizar(r) ==
    /\ pc[r] = "senha_atualizar"
    /\ usuarios' = UpdateSenha(usuarios, ctx[r].novaSenhaHash, ctx[r].usuario.id)
    /\ Responder(r, 2, Registro("alterar_senha", ctx[r].corpo, ctx[r].cred, TRUE,
                             ctx[r].usuario, ctx[r].quando, ctx[r].linha, "nenhum",
                             Resp(200, "Senha alterada com sucesso")))
    /\ UNCHANGED <<usuarios_id_seq, empresas, empresas_id_seq, emitidos, agora,
                   JWT_EXPIRES_IN,
                   contatos, contatos_id_seq, NODE_ENV, principal,
                   processo, diario>>

(***************************************************************************)
(* POST /api/empresas                                                      *)
(***************************************************************************)
Digitos == {"0", "1", "2", "3", "4", "5", "6", "7", "8", "9"}
EDigito(c) == c \in Digitos

\* cnpj.replace(/[^\d]/g, '')
SoDigitos(cnpj) == SelectSeq(cnpj, EDigito)

\* validarCNPJ
validarCNPJ(cnpj) == Len(SoDigitos(cnpj)) = TamanhoCNPJ

CnpjA == <<"1", "2", "3", "4", "5", "6", "7", "8", "0", "0", "0", "1", "9", "0">>
\* 12.345.678/0001-90
CnpjAFormatado ==
    <<"1", "2", ".", "3", "4", "5", ".", "6", "7", "8", "/", "0", "0", "0", "1",
      "-", "9", "0">>
CnpjCurto == <<"1", "2", "3">>

\* SELECT id FROM empresas WHERE cnpj = $1
SelectEmpresaPorCnpj(tabela, cnpj) == {e \in tabela : e.cnpj = cnpj}

\* INSERT INTO empresas (...) VALUES (..., TRUE) RETURNING id, under cnpj UNIQUE
InsertEmpresa(tabela, seq, corpo) ==
    IF \E e \in tabela : e.cnpj = SoDigitos(corpo.cnpj)
    THEN [erro |-> "unique_violation", tabela |-> tabela, id |-> 0]
    ELSE [erro |-> "nenhum",
          tabela |-> tabela \cup {[id |-> seq, titulo |-> corpo.titulo,
                                   nome |-> corpo.nome, setor |-> corpo.setor,
                                   cnpj |-> SoDigitos(corpo.cnpj),
                                   email |-> corpo.email, ativo |-> TRUE]},
          id |-> seq]

\* the validations of the body: the 400 of the first that fails, or SemResposta
EmpresaValidar(corpo) ==
    IF Falsy(corpo.titulo) \/ Falsy(corpo.nome) \/ Falsy(corpo.setor)
       \/ Falsy(corpo.cnpj) \/ Falsy(corpo.email)
    THEN Resp(400, "Titulo, nome, setor, CNPJ e email sao obrigatorios")
    ELSE IF ~validarCNPJ(corpo.cnpj)
    THEN Resp(400, "CNPJ invalido")
    ELSE SemResposta

\* router.post('/', async (req, res) => ...): no middleware is mounted on this
\* route, so the handler runs whatever the request carries.  Validations
\* and the SELECT by CNPJ.
EmpresaCriarInicio(r, cred, corpo) ==
    /\ Livre(r)
    /\ LET v == EmpresaValidar(corpo)
           existente == SelectEmpresaPorCnpj(empresas, SoDigitos(corpo.cnpj))
       IN  IF v # SemResposta
           THEN Responder(r, 0, Registro("empresa_criar", corpo, cred, TRUE,
                                      SemUsuario, agora, SemLinha, "nenhum", v))
           ELSE IF Cardinality(existente) > 0
           THEN Responder(r, 1, Registro("empresa_criar", corpo, cred, TRUE,
                                      SemUsuario, agora,
                                      CHOOSE e \in existente : TRUE, "nenhum",
                                      Resp(409, "CNPJ ja cadastrado")))
           ELSE /\ empresas_id_seq + Aguardando("empresa_inserir") <= MaxIdEmpresa
                /\ Aguardar(r, "empresa_inserir",
                            [op |-> "empresa_criar", corpo |-> corpo, cred |-> cred])
    /\ UNCHANGED <<usuarios, usuarios_id_seq, empresas, empresas_id_seq,
                   emitidos, agora, JWT_EXPIRES_IN,
                   contatos, contatos_id_seq, NODE_ENV, principal,
                   processo, diario>>

\* the INSERT and the response: 201 with the id, or the catch block's 500
EmpresaCriarInserir(r) ==
    /\ pc[r] = "empresa_inserir"
    /\ LET res == InsertEmpresa(empresas, empresas_id_seq, ctx[r].corpo)
       IN  /\ empresas' = res.tabela
           /\ empresas_id_seq' = empresas_id_seq + 1
           /\ IF res.erro = "nenhum"
              THEN Responder(r, 2, Registro("empresa_criar", ctx[r].corpo, ctx[r].cred,
                                         TRUE, SemUsuario, agora, SemLinha, "nenhum",
                                         [status |-> 201, sucesso |-> TRUE,
                                          mensagem |-> "Empresa criada com sucesso",
                                          id |-> res.id]))
              ELSE Responder(r, 2, Registro("empresa_criar", ctx[r].corpo, ctx[r].cred,
                                         TRUE, SemUsuario, agora, SemLinha, res.erro,
                                         Resp(500, "Erro ao criar empresa")))
    /\ UNCHANGED <<usuarios, usuarios_id_seq, emitidos, agora, JWT_EXPIRES_IN,
                   contatos, contatos_id_seq, NODE_ENV, principal,
                   processo, diario>>

(***************************************************************************)
(* GET, PUT and DELETE of /api/empresas (behind autenticar)                *)
(***************************************************************************)
\* SELECT ... FROM empresas ORDER BY nome ASC
SelectEmpresas(tabela) == Enumeracoes(tabela)

\* res.json({ sucesso: true, dados: resultado.rows })
RespostaListaEmpresas(rows) == [status |-> 200, sucesso |-> TRUE, dados |-> rows]

\* SELECT ... FROM empresas WHERE id = $1
SelectEmpresaPorId(tabela, id) == {e \in tabela : e.id = id}

\* a query parameter that is undefined or null
Nulo(campo) == campo = Indefinido

\* mutant of UpdateEmpresa: the active flag of the row is kept when the body
\* has none
UpdateEmpresaMantemAtivo(tabela, corpo, id) ==
    IF Nulo(corpo.titulo) \/ Nulo(corpo.nome) \/ Nulo(corpo.setor)
       \/ Nulo(corpo.email)
    THEN [erro |-> "not_null_violation", tabela |-> tabela]
    ELSE [erro |-> "nenhum",
          tabela |-> {IF e.id = id
                      THEN [id |-> e.id, titulo |-> corpo.titulo,
                            nome |-> corpo.nome, setor |-> corpo.setor,
                            cnpj |-> e.cnpj, email |-> corpo.email,
                            ativo |-> IF "ativo" \in DOMAIN corpo
                                      THEN corpo.ativo ELSE e.ativo]
                      ELSE e : e \in tabela}]

\* mutant of UpdateEmpresa: the CNPJ of the body is written too
UpdateEmpresaComCnpj(tabela, corpo, id) ==
    IF Nulo(corpo.titulo) \/ Nulo(corpo.nome) \/ Nulo(corpo.setor)
       \/ Nulo(corpo.email)
    THEN [erro |-> "not_null_violation", tabela |-> tabela]
    ELSE [erro |-> "nenhum",
          tabela |-> {IF e.id = id
                      THEN [id |-> e.id, titulo |-> corpo.titulo,
                            nome |-> corpo.nome, setor |-> corpo.setor,
                            cnpj |-> IF "cnpj" \in DOMAIN corpo
                                     THEN corpo.cnpj ELSE e.cnpj,
                            email |-> corpo.email,
                            ativo |-> IF "ativo" \in DOMAIN corpo
                                      THEN corpo.ativo ELSE TRUE]
                      ELSE e : e \in tabela}]

\* UPDATE empresas SET titulo = $1, nome = $2, setor = $3, ..., email = $5,
\* ..., ativo = $23 WHERE id = $24, with $23 = ativo !== undefined ? ativo :
\* true, under NOT NULL on titulo, nome, setor and email.  A body field that
\* is absent is undefined and reaches the statement as NULL; the body is a
\* record that has the field ativo only when the request has it.
UpdateEmpresa(tabela, corpo, id) ==
    IF Nulo(corpo.titulo) \/ Nulo(corpo.nome) \/ Nulo(corpo.setor)
       \/ Nulo(corpo.email)
    THEN [erro |-> "not_null_violation", tabela |-> tabela]
    ELSE [erro |-> "nenhum",
          tabela |-> {IF e.id = id
                      THEN [id |-> e.id, titulo |-> corpo.titulo,
                            nome |-> corpo.nome, setor |-> corpo.setor,
                            cnpj |-> e.cnpj, email |-> corpo.email,
                            ativo |-> IF "ativo" \in DOMAIN corpo
                                      THEN corpo.ativo ELSE TRUE]
                      ELSE e : e \in tabela}]

\* DELETE FROM empresas WHERE id = $1
DeleteEmpresa(tabela, id) == {e \in tabela : e.id # id}

\* GET /api/empresas
EmpresaListar(r, cred) ==
    /\ Livre(r)
    /\ LET a == Autenticar(cred, agora)
       IN  IF ~a.next
           THEN Responder(r, 0, Registro("empresa_listar", SemCorpo, cred, FALSE,
                                         SemUsuario, agora, SemLinha, "nenhum",
                                         a.resp))
           ELSE \E rows \in SelectEmpresas(empresas) :
                   Responder(r, 1, Registro("empresa_listar", SemCorpo, cred, TRUE,
                                            a.usuario, agora, SemLinha, "nenhum",
                                            RespostaListaEmpresas(rows)))
    /\ UNCHANGED <<usuarios, usuarios_id_seq, empresas, empresas_id_seq,
                   emitidos, agora, JWT_EXPIRES_IN,
                   contatos, contatos_id_seq, NODE_ENV, principal,
                   processo, diario>>

\* GET /api/empresas/:id
EmpresaBuscar(r, cred, id) ==
    /\ Livre(r)
    /\ LET a == Autenticar(cred, agora)
           linhas == SelectEmpresaPorId(empresas, id)
           linha == IF linhas = {} THEN SemLinha ELSE CHOOSE e \in linhas : TRUE
       IN  IF ~a.next
           THEN Responder(r, 0, Registro("empresa_buscar", SemCorpo, cred, FALSE,
                                         SemUsuario, agora, SemLinha, "nenhum",
                                         a.resp))
           ELSE IF Cardinality(linhas) = 0
           THEN Responder(r, 1, Registro("empresa_buscar", SemCorpo, cred, TRUE,
                                         a.usuario, agora, SemLinha, "nenhum",
                                         Resp(404, "Empresa nao encontrada")))
           ELSE Responder(r, 1, Registro("empresa_buscar", SemCorpo, cred, TRUE,
                                         a.usuario, agora, linha, "nenhum",
                                         [status |-> 200, sucesso |-> TRUE,
                                          dados |-> linha]))
    /\ UNCHANGED <<usuarios, usuarios_id_seq, empresas, empresas_id_seq,
                   emitidos, agora, JWT_EXPIRES_IN,
                   contatos, contatos_id_seq, NODE_ENV, principal,
                   processo, diario>>

\* PUT /api/empresas/:id: the middleware and the SELECT of the id
EmpresaAtualizarInicio(r, cred, id, corpo) ==
    /\ Livre(r)
    /\ LET a == Autenticar(cred, agora)
           linhas == SelectEmpresaPorId(empresas, id)
       IN  IF ~a.next
           THEN Responder(r, 0, Registro("empresa_atualizar", corpo, cred, FALSE,
                                         SemUsuario, agora, SemLinha, "nenhum",
                                         a.resp))
           ELSE IF Cardinality(linhas) = 0
           THEN Responder(r, 1, Registro("empresa_atualizar", corpo, cred, TRUE,
                                         a.usuario, agora, SemLinha, "nenhum",
                                         Resp(404, "Empresa nao encontrada")))
           ELSE Aguardar(r, "empresa_atualizar",
                         [op |-> "empresa_atualizar", corpo |-> corpo, cred |-> cred,
                          usuario |-> a.usuario, quando |-> agora,
                          linha |-> CHOOSE e \in linhas : TRUE, id |-> id])
    /\ UNCHANGED <<usuarios, usuarios_id_seq, empresas, empresas_id_seq,
                   emitidos, agora, JWT_EXPIRES_IN,
                   contatos, contatos_id_seq, NODE_ENV, principal,
                   processo, diario>>

\* the UPDATE and the 200, or the catch block's 500
EmpresaAtualizarFim(r) ==
    /\ pc[r] = "empresa_atualizar"
    /\ LET res == UpdateEmpresa(empresas, ctx[r].corpo, ctx[r].id)
       IN  /\ empresas' = res.tabela
           /\ IF res.erro = "nenhum"
              THEN Responder(r, 2, Registro("empresa_atualizar", ctx[r].corpo,
                                            ctx[r].cred, TRUE, ctx[r].usuario,
                                            ctx[r].quando, ctx[r].linha, "nenhum",
                                            Resp(200, "Empresa atualizada com sucesso")))
              ELSE Responder(r, 2, Registro("empresa_atualizar", ctx[r].corpo,
                                            ctx[r].cred, TRUE, ctx[r].usuario,
                                            ctx[r].quando, ctx[r].linha, res.erro,
                                            Resp(500, "Erro ao atualizar empresa")))
    /\ UNCHANGED <<usuarios, usuarios_id_seq, empresas_id_seq, emitidos, agora,
                   JWT_EXPIRES_IN, contatos, contatos_id_seq, NODE_ENV, principal,
                   processo, diario>>

\* DELETE /api/empresas/:id
EmpresaDeletar(r, cred, id) ==
    /\ Livre(r)
    /\ LET a == Autenticar(cred, agora)
           linhas == SelectEmpresaPorId(empresas, id)
       IN  IF ~a.next
           THEN /\ Responder(r, 0, Registro("empresa_deletar", SemCorpo, cred,
                                            FALSE, SemUsuario, agora, SemLinha,
                                            "nenhum", a.resp))
                /\ UNCHANGED empresas
           ELSE IF Cardinality(linhas) = 0
           THEN /\ Responder(r, 1, Registro("empresa_deletar", SemCorpo, cred,
                                            TRUE, a.usuario, agora, SemLinha,
                                            "nenhum",
                                            Resp(404, "Empresa nao encontrada")))
                /\ UNCHANGED empresas
           ELSE /\ empresas' = DeleteEmpresa(empresas, id)
                /\ Responder(r, 1, Registro("empresa_deletar", SemCorpo, cred,
                                            TRUE, a.usuario, agora,
                                            CHOOSE e \in linhas : TRUE, "nenhum",
                                            Resp(200, "Empresa deletada com sucesso")))
    /\ UNCHANGED <<usuarios, usuarios_id_seq, empresas_id_seq, emitidos, agora,
                   JWT_EXPIRES_IN, contatos, contatos_id_seq, NODE_ENV, principal,
                   processo, diario>>

(***************************************************************************)
(* routes/contatos.js: POST /api/contato (no middleware), and GET, PUT and *)
(* DELETE behind autenticar.                                               *)
(***************************************************************************)
\* SQL NULL in a column
NULL == <<"null">>

\* 'cliente'
Cliente == <<"c", "l", "i", "e", "n", "t", "e">>

\* the strings the regular expression of validarTelefone matches, as the
\* sequence of the character classes of its parts: "(" and ")" themselves,
\* "d" a digit, "s" a white space, "9" the digit 9, "-" the hyphen
FormasDeTelefone ==
    {(IF ddd THEN (IF abre THEN <<"(">> ELSE <<>>) \o <<"d", "d">>
                  \o (IF fecha THEN <<")">> ELSE <<>>)
                  \o (IF espaco THEN <<"s">> ELSE <<>>)
      ELSE <<>>)
     \o (IF nove THEN <<"9">> ELSE <<>>) \o <<"d", "d", "d", "d">>
     \o (IF hifen THEN <<"-">> ELSE <<>>) \o <<"d", "d", "d", "d">> :
        ddd \in BOOLEAN, abre \in BOOLEAN, fecha \in BOOLEAN,
        espaco \in BOOLEAN, nove \in BOOLEAN, hifen \in BOOLEAN}

\* a character is of a class
DaClasse(c, classe) ==
    IF classe = "d" THEN c \in Digitos
    ELSE IF classe = "s" THEN c \in Espacos
    ELSE c = classe

\* validarTelefone: /^(\(?\d{2}\)?\s?)?9?\d{4}-?\d{4}$/.test(telefone)
validarTelefone(telefone) ==
    \E forma \in FormasDeTelefone :
        /\ Len(forma) = Len(telefone)
        /\ \A i \in 1..Len(forma) : DaClasse(telefone[i], forma[i])

\* mutant of ContatoValidar: the telephone is not looked at
ContatoValidarSemTelefone(corpo) ==
    IF Falsy(corpo.nome) \/ Falsy(corpo.email)
    THEN Resp(400, "Nome e email sao obrigatorios")
    ELSE IF ~EmailRegexTest(corpo.email)
    THEN Resp(400, "Email invalido")
    ELSE IF Len(corpo.nome) < MinNomeContato \/ Len(corpo.nome) > MaxNomeContato
    THEN Resp(400, "Nome deve ter entre 3 e 100 caracteres")
    ELSE SemResposta

\* the validations of POST /api/contato: the 400 of the first that fails, or
\* SemResposta
ContatoValidar(corpo) ==
    IF Falsy(corpo.nome) \/ Falsy(corpo.email)
    THEN Resp(400, "Nome e email sao obrigatorios")
    ELSE IF ~EmailRegexTest(corpo.email)
    THEN Resp(400, "Email invalido")
    ELSE IF ~Falsy(corpo.telefone) /\ ~validarTelefone(corpo.telefone)
    THEN Resp(400, "Telefone invalido")
    ELSE IF Len(corpo.nome) < MinNomeContato \/ Len(corpo.nome) > MaxNomeContato
    THEN Resp(400, "Nome deve ter entre 3 e 100 caracteres")
    ELSE SemResposta

\* campo || padrao
Ou(campo, padrao) == IF Falsy(campo) THEN padrao ELSE campo

\* a query parameter as the driver sends it: undefined becomes NULL
Parametro(campo) == IF campo = Indefinido THEN NULL ELSE campo

\* INSERT INTO contatos (nome, email, telefone, cidade, tipo) VALUES ($1, $2,
\* $3, $4, $5) RETURNING id, with telefone || null, cidade || null and
\* tipo || 'cliente'
InsertContato(tabela, seq, corpo) ==
    [tabela |-> tabela \cup {[id |-> seq, nome |-> corpo.nome,
                              email |-> corpo.email,
                              telefone |-> Ou(corpo.telefone, NULL),
                              cidade |-> Ou(corpo.cidade, NULL),
                              tipo |-> Ou(corpo.tipo, Cliente)]},
     id |-> seq]

\* lower case of the letters of the texts of the model
Minuscula(c) ==
    IF c = "A" THEN "a" ELSE IF c = "B" THEN "b" ELSE IF c = "S" THEN "s"
    ELSE IF c = "P" THEN "p" ELSE c

\* texto ILIKE '%' || parte || '%' for a part without the wildcards % and _
ILikeContem(texto, parte) ==
    /\ texto # NULL
    /\ \E i \in 0..(Len(texto) - Len(parte)) :
          \A k \in 1..Len(parte) : Minuscula(texto[i + k]) = Minuscula(parte[k])

\* the rows of a result in descending order of id
PorIdDesc(linhas) ==
    CHOOSE f \in Enumeracoes(linhas) :
        \A i, j \in 1..Cardinality(linhas) : i < j => f[i].id > f[j].id

\* SELECT * FROM contatos WHERE 1=1 [AND tipo = $1] [AND cidade ILIKE $2]
\* ORDER BY id DESC, the conditions added for the filters that are truthy
SelectContatos(tabela, filtro) ==
    PorIdDesc({c \in tabela :
                  /\ Falsy(filtro.tipo) \/ c.tipo = filtro.tipo
                  /\ Falsy(filtro.cidade) \/ ILikeContem(c.cidade, filtro.cidade)})

\* SELECT * FROM contatos WHERE id = $1
SelectContatoPorId(tabela, id) == {c \in tabela : c.id = id}

\* UPDATE contatos SET nome = $1, email = $2, telefone = $3, cidade = $4,
\* tipo = $5 WHERE id = $6
UpdateContato(tabela, corpo, id) ==
    {IF c.id = id
     THEN [id |-> c.id, nome |-> corpo.nome, email |-> corpo.email,
           telefone |-> Parametro(corpo.telefone),
           cidade |-> Parametro(corpo.cidade), tipo |-> Parametro(corpo.tipo)]
     ELSE c : c \in tabela}

\* mutant of DeleteContato: the statement has no WHERE clause
DeleteContatoSemWhere(tabela, id) == {}

\* DELETE FROM contatos WHERE id = $1
DeleteContato(tabela, id) == {c \in tabela : c.id # id}

\* POST /api/contato: the validations, the INSERT and the 201
ContatoCriar(r, cred, corpo) ==
    /\ Livre(r)
    /\ LET v == ContatoValidar(corpo)
           res == InsertContato(contatos, contatos_id_seq, corpo)
       IN  IF v # SemResposta
           THEN /\ Responder(r, 0, Registro("contato_criar", corpo, cred, TRUE,
                                            SemUsuario, agora, SemLinha, "nenhum",
                                            v))
                /\ UNCHANGED <<contatos, contatos_id_seq>>
           ELSE /\ contatos_id_seq <= MaxIdContato
                /\ contatos' = res.tabela
                /\ contatos_id_seq' = contatos_id_seq + 1
                /\ Responder(r, 1, Registro("contato_criar", corpo, cred, TRUE,
                                            SemUsuario, agora, SemLinha, "nenhum",
                                            [status |-> 201, sucesso |-> TRUE,
                                             mensagem |-> "Contato cadastrado com sucesso!",
                                             id |-> res.id]))
    /\ UNCHANGED <<usuarios, usuarios_id_seq, empresas, empresas_id_seq,
                   emitidos, agora, JWT_EXPIRES_IN, NODE_ENV, principal,
                   processo, diario>>

\* GET /api/contato?tipo=&cidade=
ContatoListar(r, cred, filtro) ==
    /\ Livre(r)
    /\ LET a == Autenticar(cred, agora)
       IN  IF ~a.next
           THEN Responder(r, 0, Registro("contato_listar", filtro, cred, FALSE,
                                         SemUsuario, agora, SemLinha, "nenhum",
                                         a.resp))
           ELSE Responder(r, 1, Registro("contato_listar", filtro, cred, TRUE,
                                         a.usuario, agora, SemLinha, "nenhum",
                                         RespostaLista(SelectContatos(contatos,
                                                                      filtro))))
    /\ UNCHANGED <<usuarios, usuarios_id_seq, empresas, empresas_id_seq,
                   emitidos, agora, JWT_EXPIRES_IN,
                   contatos, contatos_id_seq, NODE_ENV, principal,
                   processo, diario>>

\* GET /api/contato/:id
ContatoBuscar(r, cred, id) ==
    /\ Livre(r)
    /\ LET a == Autenticar(cred, agora)
           linhas == SelectContatoPorId(contatos, id)
           linha == IF linhas = {} THEN SemLinha ELSE CHOOSE c \in linhas : TRUE
       IN  IF ~a.next
           THEN Responder(r, 0, Registro("contato_buscar", SemCorpo, cred, FALSE,
                                         SemUsuario, agora, SemLinha, "nenhum",
                                         a.resp))
           ELSE IF Cardinality(linhas) = 0
           THEN Responder(r, 1, Registro("contato_buscar", SemCorpo, cred, TRUE,
                                         a.usuario, agora, SemLinha, "nenhum",
                                         Resp(404, "Contato nao encontrado")))
           ELSE Responder(r, 1, Registro("contato_buscar", SemCorpo, cred, TRUE,
                                         a.usuario, agora, linha, "nenhum",
                                         [status |-> 200, sucesso |-> TRUE,
                                          dados |-> linha]))
    /\ UNCHANGED <<usuarios, usuarios_id_seq, empresas, empresas_id_seq,
                   emitidos, agora, JWT_EXPIRES_IN,
                   contatos, contatos_id_seq, NODE_ENV, principal,
                   processo, diario>>

\* mutant of ContatoAtualizar: the UPDATE is issued before the body is
\* validated
ContatoAtualizarValidaDepois(r, cred, id, corpo) ==
    /\ Livre(r)
    /\ LET a == Autenticar(cred, agora)
           linhas == SelectContatoPorId(contatos, id)
       IN  IF ~a.next
           THEN /\ Responder(r, 0, Registro("contato_atualizar", corpo, cred,
                                            FALSE, SemUsuario, agora, SemLinha,
                                            "nenhum", a.resp))
                /\ UNCHANGED contatos
           ELSE /\ contatos' = UpdateContato(contatos, corpo, id)
                /\ IF Falsy(corpo.nome) \/ Falsy(corpo.email)
                   THEN Responder(r, 1, Registro("contato_atualizar", corpo, cred,
                                                 TRUE, a.usuario, agora, SemLinha,
                                                 "nenhum",
                                                 Resp(400, "Nome e email sao obrigatorios")))
                   ELSE IF Cardinality(linhas) = 0
                   THEN Responder(r, 1, Registro("contato_atualizar", corpo, cred,
                                                 TRUE, a.usuario, agora, SemLinha,
                                                 "nenhum",
                                                 Resp(404, "Contato nao encontrado")))
                   ELSE Responder(r, 1, Registro("contato_atualizar", corpo, cred,
                                                 TRUE, a.usuario, agora,
                                                 CHOOSE c \in linhas : TRUE,
                                                 "nenhum",
                                                 Resp(200, "Contato atualizado com sucesso")))
    /\ UNCHANGED <<usuarios, usuarios_id_seq, empresas, empresas_id_seq,
                   emitidos, agora, JWT_EXPIRES_IN, contatos_id_seq, NODE_ENV,
                   principal, processo, diario>>

\* PUT /api/contato/:id: the middleware, the validation, the UPDATE and the
\* response by its rowCount
ContatoAtualizar(r, cred, id, corpo) ==
    /\ Livre(r)
    /\ LET a == Autenticar(cred, agora)
           linhas == SelectContatoPorId(contatos, id)
       IN  IF ~a.next
           THEN /\ Responder(r, 0, Registro("contato_atualizar", corpo, cred,
                                            FALSE, SemUsuario, agora, SemLinha,
                                            "nenhum", a.resp))
                /\ UNCHANGED contatos
           ELSE IF Falsy(corpo.nome) \/ Falsy(corpo.email)
           THEN /\ Responder(r, 0, Registro("contato_atualizar", corpo, cred,
                                            TRUE, a.usuario, agora, SemLinha,
                                            "nenhum",
                                            Resp(400, "Nome e email sao obrigatorios")))
                /\ UNCHANGED contatos
           ELSE /\ contatos' = UpdateContato(contatos, corpo, id)
                /\ IF Cardinality(linhas) = 0
                   THEN Responder(r, 1, Registro("contato_atualizar", corpo, cred,
                                                 TRUE, a.usuario, agora, SemLinha,
                                                 "nenhum",
                                                 Resp(404, "Contato nao encontrado")))
                   ELSE Responder(r, 1, Registro("contato_atualizar", corpo, cred,
                                                 TRUE, a.usuario, agora,
                                                 CHOOSE c \in linhas : TRUE,
                                                 "nenhum",
                                                 Resp(200, "Contato atualizado com sucesso")))
    /\ UNCHANGED <<usuarios, usuarios_id_seq, empresas, empresas_id_seq,
                   emitidos, agora, JWT_EXPIRES_IN, contatos_id_seq, NODE_ENV,
                   principal, processo, diario>>

\* DELETE /api/contato/:id: the middleware, the DELETE and the response by
\* its rowCount
ContatoDeletar(r, cred, id) ==
    /\ Livre(r)
    /\ LET a == Autenticar(cred, agora)
           linhas == SelectContatoPorId(contatos, id)
       IN  IF ~a.next
           THEN /\ Responder(r, 0, Registro("contato_deletar", SemCorpo, cred,
                                            FALSE, SemUsuario, agora, SemLinha,
                                            "nenhum", a.resp))
                /\ UNCHANGED contatos
           ELSE /\ contatos' = DeleteContato(contatos, id)
                /\ IF Cardinality(linhas) = 0
                   THEN Responder(r, 1, Registro("contato_deletar", SemCorpo, cred,
                                                 TRUE, a.usuario, agora, SemLinha,
                                                 "nenhum",
                                                 Resp(404, "Contato nao encontrado")))
                   ELSE Responder(r, 1, Registro("contato_deletar", SemCorpo, cred,
                                                 TRUE, a.usuario, agora,
                                                 CHOOSE c \in linhas : TRUE,
                                                 "nenhum",
                                                 Resp(200, "Contato deletado com sucesso")))
    /\ UNCHANGED <<usuarios, usuarios_id_seq, empresas, empresas_id_seq,
                   emitidos, agora, JWT_EXPIRES_IN, contatos_id_seq, NODE_ENV,
                   principal, processo, diario>>

(***************************************************************************)
(* Failures of the datastore.  pool.query rejects (the connection is lost, *)
(* the statement times out, the server refuses it) at any statement of any *)
(* handler; the statement then has no effect.  The rejection is thrown at  *)
(* the `await` inside the handler's single try block and lands in its      *)
(* catch block.                                                            *)
(***************************************************************************)
\* the errors with which a statement is rejected
Falhas == {"connection_terminated", "query_timeout"}

\* the routes behind autenticar
Protegidas ==
    {"perfil", "usuarios", "alterar_senha", "empresa_listar", "empresa_buscar",
     "empresa_atualizar", "empresa_deletar", "contato_listar", "contato_buscar",
     "contato_atualizar", "contato_deletar"}

\* the handlers that issue a statement
ComConsulta == Protegidas \cup {"registro", "login", "empresa_criar", "contato_criar"}

\* the message of the catch block of each handler
MensagemDoCatch(op) ==
    CASE op = "registro" -> "Erro ao registrar usuario"
      [] op = "login" -> "Erro ao fazer login"
      [] op = "perfil" -> "Erro ao buscar perfil"
      [] op = "alterar_senha" -> "Erro ao alterar senha"
      [] op = "usuarios" -> "Erro ao listar usuarios"
      [] op = "empresa_criar" -> "Erro ao criar empresa"
      [] op = "empresa_listar" -> "Erro ao listar empresas"
      [] op = "empresa_buscar" -> "Erro ao buscar empresa"
      [] op = "empresa_atualizar" -> "Erro ao atualizar empresa"
      [] op = "empresa_deletar" -> "Erro ao deletar empresa"
      [] op = "contato_criar" -> "Erro ao processar sua solicitacao"
      [] op = "contato_listar" -> "Erro ao buscar contatos"
      [] op = "contato_buscar" -> "Erro ao buscar contato"
      [] op = "contato_atualizar" -> "Erro ao atualizar contato"
      [] op = "contato_deletar" -> "Erro ao deletar contato"

\* mutant of RespostaDoCatch: the message is the one of the error, as in the
\* error middleware of server.js outside production
RespostaDoCatchComDetalhe(op, erro) ==
    [status |-> 500, sucesso |-> FALSE, mensagem |-> erro]

\* catch (erro) { console.error(..., erro); res.status(500).json({ sucesso:
\* false, mensagem: '...' }) }
RespostaDoCatch(op, erro) == Resp(500, MensagemDoCatch(op))

\* what the handler answers before its first statement for these
\* credentials and this body, or SemResposta when it reaches the statement
AntesDaConsulta(op, cred, corpo) ==
    LET a == Autenticar(cred, agora)
    IN  IF op \in Protegidas /\ ~a.next THEN a.resp
        ELSE IF op = "registro" THEN RegistroValidar(corpo)
        ELSE IF op = "login"
        THEN IF Falsy(corpo.email) \/ Falsy(corpo.senha)
             THEN Resp(400, "Email e senha sao obrigatorios") ELSE SemResposta
        ELSE IF op = "alterar_senha" THEN AlterarSenhaValidar(corpo)
        ELSE IF op = "empresa_criar" THEN EmpresaValidar(corpo)
        ELSE IF op = "contato_criar" THEN ContatoValidar(corpo)
        ELSE IF op = "contato_atualizar"
        THEN IF Falsy(corpo.nome) \/ Falsy(corpo.email)
             THEN Resp(400, "Nome e email sao obrigatorios") ELSE SemResposta
        ELSE SemResposta

\* a request of handler op reaches its first statement, which is rejected
FalhaNaPrimeiraConsulta(r, op, cred, corpo) ==
    /\ Livre(r)
    /\ AntesDaConsulta(op, cred, corpo) = SemResposta
    /\ \E erro \in Falhas :
          Responder(r, 1, Registro(op, corpo, cred, TRUE,
                                   IF op \in Protegidas
                                   THEN Autenticar(cred, agora).usuario
                                   ELSE SemUsuario,
                                   agora, SemLinha, erro, RespostaDoCatch(op, erro)))
    /\ UNCHANGED <<usuarios, usuarios_id_seq, empresas, empresas_id_seq,
                   emitidos, agora, JWT_EXPIRES_IN,
                   contatos, contatos_id_seq, NODE_ENV, principal,
                   processo, diario>>

\* the labels at which a request waits for its second statement (a request
\* at login_comparar waits for bcrypt, not for the datastore)
EsperaConsulta ==
    {"registro_inserir", "senha_atualizar", "empresa_inserir", "empresa_atualizar"}

\* the second statement of the request in slot r is rejected
FalhaNaSegundaConsulta(r) ==
    /\ pc[r] \in EsperaConsulta
    /\ \E erro \in Falhas :
          Responder(r, 2, Registro(ctx[r].op, ctx[r].corpo,
                                   IF "cred" \in DOMAIN ctx[r] THEN ctx[r].cred
                                   ELSE SemCredencial,
                                   TRUE,
                                   IF "usuario" \in DOMAIN ctx[r] THEN ctx[r].usuario
                                   ELSE SemUsuario,
                                   agora, SemLinha, erro,
                                   RespostaDoCatch(ctx[r].op, erro)))
    /\ UNCHANGED <<usuarios, usuarios_id_seq, empresas, empresas_id_seq,
                   emitidos, agora, JWT_EXPIRES_IN,
                   contatos, contatos_id_seq, NODE_ENV, principal,
                   processo, diario>>

(***************************************************************************)
(* The process.  Two files of the repository start the server and register *)
(* handlers for the events 'unhandledRejection' and 'uncaughtException' of *)
(* the process: server.js, and the file whose text is unnamed/part_002.    *)
(* `principal` is the one the process was started from.  An event is an    *)
(* error that no handler of a request caught (all of them catch the errors *)
(* of their own statements), raised by the environment.                    *)
(***************************************************************************)
Principais == {"server.js", "part_002"}

Eventos == {"unhandledRejection", "uncaughtException"}

\* whether the handler of the file calls process.exit(1) after logging:
\* server.js does when NODE_ENV !== 'production', part_002 always
Encerra(arquivo, modo) ==
    IF arquivo = "server.js" THEN modo # "production" ELSE TRUE

\* process.on(evento, (err) => { console.error(..., err); ... })
ErroDeProcesso(evento) ==
    /\ processo = "executando"
    /\ diario' = diario \cup {evento}
    /\ processo' = IF Encerra(principal, NODE_ENV) THEN "encerrado" ELSE processo
    /\ ultimo' = Nenhum
    /\ UNCHANGED <<usuarios, usuarios_id_seq, empresas, empresas_id_seq, emitidos,
                   agora, JWT_EXPIRES_IN, contatos, contatos_id_seq, NODE_ENV,
                   principal, pc, ctx>>

(***************************************************************************)
(* The environment: the administrator deactivates an account directly in   *)
(* the datastore, and time passes.                                         *)
(***************************************************************************)
\* UPDATE usuarios SET ativo = FALSE WHERE id = $1
Desativar(id) ==
    /\ \E u \in usuarios : u.id = id /\ u.ativo
    /\ usuarios' = {IF u.id = id THEN [u EXCEPT !.ativo = FALSE] ELSE u : u \in usuarios}
    /\ ultimo' = Nenhum
    /\ UNCHANGED <<usuarios_id_seq, empresas, empresas_id_seq, emitidos, agora,
                   JWT_EXPIRES_IN,
                   contatos, contatos_id_seq, NODE_ENV, principal,
                   processo, diario, pc, ctx>>

Tick(instantes) ==
    /\ \E t \in instantes : t > agora /\ agora' = t
    /\ ultimo' = Nenhum
    /\ UNCHANGED <<usuarios, usuarios_id_seq, empresas, empresas_id_seq, emitidos,
                   JWT_EXPIRES_IN,
                   contatos, contatos_id_seq, NODE_ENV, principal,
                   processo, diario, pc, ctx>>

(***************************************************************************)
(* The requests the clients send.                                          *)
(***************************************************************************)
CorpoRegistro(nome, email, senha, confirmarSenha) ==
    [nome |-> nome, email |-> email, senha |-> senha,
     confirmarSenha |-> confirmarSenha]

CorpoLogin(email, senha) == [email |-> email, senha |-> senha]

CorpoSenha(senhaAtual, novaSenha, confirmarNovaSenha) ==
    [senhaAtual |-> senhaAtual, novaSenha |-> novaSenha,
     confirmarNovaSenha |-> confirmarNovaSenha]

CorpoEmpresa(titulo, cnpj) ==
    [titulo |-> titulo, nome |-> Nome, setor |-> Nome, cnpj |-> cnpj,
     email |-> EmailA]

\* tokens a client can make without the server's key: signed with a key of
\* its own, with whatever payload it likes
Forjados ==
    {[forma |-> "jwt",
      carga |-> [id |-> 1, nome |-> Nome, email |-> EmailA, iat |-> 0,
                 exp |-> 100000],
      chave |-> "outra chave"]}

\* the tokens the clients were given
Tokens == {e.token : e \in emitidos}

\* the credentials a request can carry in the Authorization header: none, or
\* a token it was given or made
Credenciais ==
    {SemCredencial} \cup {ComBearer(t) : t \in Tokens \cup Forjados}

\* the same, and the cookie
CredenciaisCookie ==
    Credenciais \cup {ComCookie(t) : t \in Tokens \cup {TokenLixo}}

(***************************************************************************)
(* Spec: every operation, over few request bodies.                         *)
(***************************************************************************)
CorposRegistro ==
    {CorpoRegistro(Nome, EmailA, Senha1, Senha1),
     CorpoRegistro(Nome, EmailB, Senha1, Senha1)}

CorposLogin ==
    {CorpoLogin(EmailA, Senha1), CorpoLogin(EmailA, Senha2),
     CorpoLogin(EmailB, Senha1)}

CorposSenha ==
    {CorpoSenha(Senha1, Senha2, Senha2), CorpoSenha(Senha2, Senha1, Senha1)}

CorposEmpresa == {CorpoEmpresa(Nome, CnpjA)}

InstantesHoras == {0, 3600000, 28800000}

Next ==
    \/ \E r \in Reqs, corpo \in CorposRegistro : RegistroInicio(r, corpo)
    \/ \E r \in Reqs : RegistroInserir(r)
    \/ \E r \in Reqs, corpo \in CorposLogin : LoginInicio(r, corpo)
    \/ \E r \in Reqs : LoginFim(r)
    \/ \E r \in Reqs, cred \in CredenciaisCookie : Perfil(r, cred)
    \/ \E r \in Reqs, cred \in Credenciais, corpo \in CorposSenha :
          AlterarSenhaInicio(r, cred, corpo)
    \/ \E r \in Reqs : AlterarSenhaAtualizar(r)
    \/ \E r \in Reqs, corpo \in CorposEmpresa :
          EmpresaCriarInicio(r, SemCredencial, corpo)
    \/ \E r \in Reqs : EmpresaCriarInserir(r)
    \/ \E id \in 1..MaxId : Desativar(id)
    \/ Tick(InstantesHoras)

Spec == Init /\ [][Next]_vars

(***************************************************************************)
(* SpecRegistro: concurrent registrations over every kind of body, from an *)
(* empty table or from a table that holds a row written before the API     *)
(* validated addresses.                                                    *)
(***************************************************************************)
Legado ==
    [id |-> 1, nome |-> Nome, email |-> EmailSemPonto,
     senha |-> BcryptHash(Senha1, saltRounds), ativo |-> TRUE]

CorposRegistroTodos ==
    {CorpoRegistro(Nome, e, s, c) :
        e \in {Indefinido, EmailA, EmailAMaiusc, EmailSemPonto, EmailComEspaco,
               EmailDoisArrobas, EmailPontoFinal},
        s \in {Vazio, SenhaCurta, Senha1},
        c \in {Indefinido, SenhaCurta, Senha1}}
    \cup
    {CorpoRegistro(Vazio, e, s, c) :
        e \in {EmailA, EmailSemPonto},
        s \in {SenhaCurta, Senha1},
        c \in {Indefinido, Senha1}}

InitRegistro ==
    /\ usuarios \in {{}, {Legado}}
    /\ usuarios_id_seq = IF usuarios = {} THEN 1 ELSE 2
    /\ empresas = {}
    /\ empresas_id_seq = 1
    /\ emitidos = {}
    /\ agora = 0
    /\ JWT_EXPIRES_IN = ""
    /\ contatos = {}
    /\ contatos_id_seq = 1
    /\ NODE_ENV = ""
    /\ principal = "server.js"
    /\ processo = "executando"
    /\ diario = {}
    /\ pc = [r \in Reqs |-> "livre"]
    /\ ctx = [r \in Reqs |-> Ocioso]
    /\ ultimo = Nenhum

NextRegistro ==
    \/ \E r \in Reqs, corpo \in CorposRegistroTodos : RegistroInicio(r, corpo)
    \/ \E r \in Reqs : RegistroInserir(r)

SpecRegistro == InitRegistro /\ [][NextRegistro]_vars

(***************************************************************************)
(* SpecLogin: logins over every kind of body, against an account that      *)
(* exists at the start and one that registers meanwhile, both of which the *)
(* administrator may deactivate.                                           *)
(***************************************************************************)
Nome2 == <<"B", "i", "a">>

CorposLoginTodos ==
    {CorpoLogin(e, s) :
        e \in {Indefinido, EmailA, EmailAMaiusc, EmailB},
        s \in {Vazio, Senha1, Senha2}}

\* an account registered before the server started
ContaA ==
    [id |-> 1, nome |-> Nome, email |-> EmailA,
     senha |-> BcryptHash(Senha1, saltRounds), ativo |-> TRUE]

InitLogin ==
    /\ usuarios \in {{}, {ContaA}}
    /\ usuarios_id_seq = Cardinality(usuarios) + 1
    /\ empresas = {}
    /\ empresas_id_seq = 1
    /\ emitidos = {}
    /\ agora = 0
    /\ JWT_EXPIRES_IN \in {"", "1h"}
    /\ contatos = {}
    /\ contatos_id_seq = 1
    /\ NODE_ENV = ""
    /\ principal = "server.js"
    /\ processo = "executando"
    /\ diario = {}
    /\ pc = [r \in Reqs |-> "livre"]
    /\ ctx = [r \in Reqs |-> Ocioso]
    /\ ultimo = Nenhum

NextLogin ==
    \/ \E r \in Reqs :
          RegistroInicio(r, CorpoRegistro(Nome2, EmailAMaiusc, Senha2, Senha2))
    \/ \E r \in Reqs : RegistroInserir(r)
    \/ \E r \in Reqs, corpo \in CorposLoginTodos : LoginInicio(r, corpo)
    \/ \E r \in Reqs : LoginFim(r)
    \/ \E id \in 1..MaxId : Desativar(id)

SpecLogin == InitLogin /\ [][NextLogin]_vars

(***************************************************************************)
(* SpecToken: one account, its tokens and the clock at the instants around *)
(* the expiration of each token.                                           *)
(***************************************************************************)
NextToken ==
    \/ \E r \in Reqs : RegistroInicio(r, CorpoRegistro(Nome, EmailA, Senha1, Senha1))
    \/ \E r \in Reqs : RegistroInserir(r)
    \/ \E r \in Reqs : LoginInicio(r, CorpoLogin(EmailA, Senha1))
    \/ \E r \in Reqs : LoginFim(r)
    \/ \E r \in Reqs, cred \in CredenciaisCookie : Perfil(r, cred)
    \/ Tick(Instantes)

SpecToken == Init /\ [][NextToken]_vars

(***************************************************************************)
(* SpecAcesso: one account that registers, logs in, changes its password   *)
(* and calls the routes behind the middleware, with and without tokens,    *)
(* before and after they expire.                                           *)
(***************************************************************************)
InstantesAcesso == {0, 28800000}

\* server start without JWT_EXPIRES_IN in the environment
InitAcesso ==
    /\ usuarios = {}
    /\ usuarios_id_seq = 1
    /\ empresas = {}
    /\ empresas_id_seq = 1
    /\ emitidos = {}
    /\ agora = 0
    /\ JWT_EXPIRES_IN = ""
    /\ contatos = {}
    /\ contatos_id_seq = 1
    /\ NODE_ENV = ""
    /\ principal = "server.js"
    /\ processo = "executando"
    /\ diario = {}
    /\ pc = [r \in Reqs |-> "livre"]
    /\ ctx = [r \in Reqs |-> Ocioso]
    /\ ultimo = Nenhum

CorposLoginAcesso == {CorpoLogin(EmailA, Senha1), CorpoLogin(EmailA, Senha2)}

NextAcesso ==
    \/ \E r \in Reqs : RegistroInicio(r, CorpoRegistro(Nome, EmailA, Senha1, Senha1))
    \/ \E r \in Reqs : RegistroInserir(r)
    \/ \E r \in Reqs, corpo \in CorposLoginAcesso : LoginInicio(r, corpo)
    \/ \E r \in Reqs : LoginFim(r)
    \/ \E r \in Reqs, cred \in CredenciaisCookie : Perfil(r, cred)
    \/ \E r \in Reqs, cred \in CredenciaisCookie :
          AlterarSenhaInicio(r, cred, CorpoSenha(Senha1, Senha2, Senha2))
    \/ \E r \in Reqs : AlterarSenhaAtualizar(r)
    \/ Tick(InstantesAcesso)

SpecAcesso == InitAcesso /\ [][NextAcesso]_vars

(***************************************************************************)
(* SpecEmpresa: company creation by callers with and without a token.      *)
(***************************************************************************)
CorposEmpresaValidos ==
    {CorpoEmpresa(Nome, CnpjA), CorpoEmpresa(Nome, CnpjAFormatado)}

NextEmpresa ==
    \/ \E r \in Reqs : RegistroInicio(r, CorpoRegistro(Nome, EmailA, Senha1, Senha1))
    \/ \E r \in Reqs : RegistroInserir(r)
    \/ \E r \in Reqs : LoginInicio(r, CorpoLogin(EmailA, Senha1))
    \/ \E r \in Reqs : LoginFim(r)
    \/ \E r \in Reqs, cred \in Credenciais, corpo \in CorposEmpresaValidos :
          EmpresaCriarInicio(r, cred, corpo)
    \/ \E r \in Reqs : EmpresaCriarInserir(r)
    \/ Tick(InstantesHoras)

SpecEmpresa == Init /\ [][NextEmpresa]_vars

(***************************************************************************)
(* SpecAutenticar: one account and the middleware in front of the profile  *)
(* route, for requests that carry every combination of cookie and          *)
(* Authorization header, before and after the first token expires.         *)
(***************************************************************************)
\* a token signed with another key that is also past its expiration
ForjadoExpirado ==
    [forma |-> "jwt",
     carga |-> [id |-> 1, nome |-> Nome, email |-> EmailA, iat |-> 0, exp |-> 1],
     chave |-> "outra chave"]

\* what a client can put where a token goes
TokensDoCliente == Tokens \cup Forjados \cup {ForjadoExpirado, TokenLixo}

\* req.cookies.accessToken: absent, empty, or a token
Cookies == {SemToken, TokenVazio} \cup TokensDoCliente

\* req.headers.authorization: absent, 'Bearer' alone, 'Bearer ' with nothing
\* after it, 'bearer <token>', 'Basic <token>', 'Bearer <token>'
Headers ==
    {SemHeader, <<Texto("Bearer")>>, Bearer(TokenVazio)}
    \cup {<<Texto("bearer"), t>> : t \in Tokens}
    \cup {Basic(t) : t \in Tokens}
    \cup {Bearer(t) : t \in TokensDoCliente}

CredenciaisTodas ==
    {[cookie |-> c, authorization |-> h] : c \in Cookies, h \in Headers}

NextAutenticar ==
    \/ \E r \in Reqs : RegistroInicio(r, CorpoRegistro(Nome, EmailA, Senha1, Senha1))
    \/ \E r \in Reqs : RegistroInserir(r)
    \/ \E r \in Reqs : LoginInicio(r, CorpoLogin(EmailA, Senha1))
    \/ \E r \in Reqs : LoginFim(r)
    \/ \E r \in Reqs, cred \in CredenciaisTodas : Perfil(r, cred)
    \/ Tick(InstantesAcesso)

SpecAutenticar == InitAcesso /\ [][NextAutenticar]_vars

(***************************************************************************)
(* SpecFluxo: one account that registers, logs in and reads its profile,   *)
(* with and without its token, before and after the token expires.         *)
(***************************************************************************)
NextFluxo ==
    \/ \E r \in Reqs : RegistroInicio(r, CorpoRegistro(Nome, EmailA, Senha1, Senha1))
    \/ \E r \in Reqs : RegistroInserir(r)
    \/ \E r \in Reqs : LoginInicio(r, CorpoLogin(EmailA, Senha1))
    \/ \E r \in Reqs : LoginFim(r)
    \/ \E r \in Reqs, cred \in CredenciaisCookie : Perfil(r, cred)
    \/ Tick(InstantesAcesso)

SpecFluxo == InitAcesso /\ [][NextFluxo]_vars

(***************************************************************************)
(* SpecRevogacao: one account that logs in with the password it registered *)
(* with, then changes its password or is deactivated, and goes on using    *)
(* the tokens it holds.                                                    *)
(***************************************************************************)
NextRevogacao ==
    \/ \E r \in Reqs : RegistroInicio(r, CorpoRegistro(Nome, EmailA, Senha1, Senha1))
    \/ \E r \in Reqs : RegistroInserir(r)
    \/ \E r \in Reqs : LoginInicio(r, CorpoLogin(EmailA, Senha1))
    \/ \E r \in Reqs : LoginFim(r)
    \/ \E r \in Reqs, cred \in CredenciaisCookie : Perfil(r, cred)
    \/ \E r \in Reqs, cred \in CredenciaisCookie :
          AlterarSenhaInicio(r, cred, CorpoSenha(Senha1, Senha2, Senha2))
    \/ \E r \in Reqs : AlterarSenhaAtualizar(r)
    \/ \E id \in 1..MaxId : Desativar(id)
    \/ Tick(InstantesAcesso)

SpecRevogacao == InitAcesso /\ [][NextRevogacao]_vars

(***************************************************************************)
(* SpecSenha: password changes over every kind of body, by the holders of  *)
(* tokens that were issued before the server started: two accounts of the  *)
(* table and one whose row was since removed directly in the datastore.    *)
(***************************************************************************)
ContaB ==
    [id |-> 2, nome |-> Nome2, email |-> EmailB,
     senha |-> BcryptHash(Senha1, saltRounds), ativo |-> TRUE]

\* an account whose row is no longer in the table
ContaRemovida ==
    [id |-> 3, nome |-> Nome, email |-> EmailAMaiusc,
     senha |-> BcryptHash(Senha1, saltRounds), ativo |-> TRUE]

\* the token a login to the account signed at time 0
TokenDe(conta) == JwtSign(Resumo(conta), JWT_SECRET, "8h", 0)

TokensAntigos == {TokenDe(ContaA), TokenDe(ContaB), TokenDe(ContaRemovida)}

CredenciaisSenha == {SemCredencial} \cup {ComBearer(t) : t \in TokensAntigos}

CorposSenhaTodos ==
    {CorpoSenha(a, n, c) :
        a \in {Indefinido, Senha1, Senha2},
        n \in {Vazio, SenhaCurta, Senha2},
        c \in {Indefinido, SenhaCurta, Senha2}}

InitSenha ==
    /\ usuarios = {ContaA, ContaB}
    /\ usuarios_id_seq = 4
    /\ empresas = {}
    /\ empresas_id_seq = 1
    /\ emitidos = {}
    /\ agora = 0
    /\ JWT_EXPIRES_IN = ""
    /\ contatos = {}
    /\ contatos_id_seq = 1
    /\ NODE_ENV = ""
    /\ principal = "server.js"
    /\ processo = "executando"
    /\ diario = {}
    /\ pc = [r \in Reqs |-> "livre"]
    /\ ctx = [r \in Reqs |-> Ocioso]
    /\ ultimo = Nenhum

NextSenha ==
    \/ \E r \in Reqs, cred \in CredenciaisSenha, corpo \in CorposSenhaTodos :
          AlterarSenhaInicio(r, cred, corpo)
    \/ \E r \in Reqs : AlterarSenhaAtualizar(r)

SpecSenha == InitSenha /\ [][NextSenha]_vars

(***************************************************************************)
(* SpecTroca: the first account changes its password, among short ones     *)
(* and ones longer than bcrypt reads, while both accounts log in and the   *)
(* administrator may deactivate them.                                      *)
(***************************************************************************)
CorposTroca ==
    {CorpoSenha(Senha1, Senha2, Senha2),
     CorpoSenha(Senha2, Senha1, Senha1),
     CorpoSenha(Senha1, SenhaLongaA, SenhaLongaA),
     CorpoSenha(SenhaLongaA, SenhaLongaB, SenhaLongaB)}

SenhasTroca == {Senha1, Senha2, SenhaLongaA, SenhaLongaB}

CorposLoginTroca ==
    {CorpoLogin(EmailA, s) : s \in SenhasTroca}
    \cup {CorpoLogin(EmailB, Senha1), CorpoLogin(EmailB, Senha2)}

NextTroca ==
    \/ \E r \in Reqs, corpo \in CorposTroca :
          AlterarSenhaInicio(r, ComBearer(TokenDe(ContaA)), corpo)
    \/ \E r \in Reqs : AlterarSenhaAtualizar(r)
    \/ \E r \in Reqs, corpo \in CorposLoginTroca : LoginInicio(r, corpo)
    \/ \E r \in Reqs : LoginFim(r)
    \/ \E id \in 1..MaxId : Desativar(id)

SpecTroca == InitSenha /\ [][NextTroca]_vars

(***************************************************************************)
(* SpecRegistroLogin: an account registers with a short password or with   *)
(* one longer than bcrypt reads, logs in with right and wrong passwords,   *)
(* may change its password and may be deactivated.                         *)
(***************************************************************************)
CorposRegistroLogin ==
    {CorpoRegistro(Nome, EmailA, Senha1, Senha1),
     CorpoRegistro(Nome, EmailA, SenhaLongaA, SenhaLongaA)}

CorposLoginRegistro == {CorpoLogin(EmailA, s) : s \in SenhasTroca}

CorposSenhaRegistro ==
    {CorpoSenha(Senha1, Senha2, Senha2), CorpoSenha(SenhaLongaA, Senha2, Senha2)}

NextRegistroLogin ==
    \/ \E r \in Reqs, corpo \in CorposRegistroLogin : RegistroInicio(r, corpo)
    \/ \E r \in Reqs : RegistroInserir(r)
    \/ \E r \in Reqs, corpo \in CorposLoginRegistro : LoginInicio(r, corpo)
    \/ \E r \in Reqs : LoginFim(r)
    \/ \E r \in Reqs, t \in Tokens, corpo \in CorposSenhaRegistro :
          AlterarSenhaInicio(r, ComBearer(t), corpo)
    \/ \E r \in Reqs : AlterarSenhaAtualizar(r)
    \/ \E id \in 1..MaxId : Desativar(id)

SpecRegistroLogin == InitAcesso /\ [][NextRegistroLogin]_vars

(***************************************************************************)
(* SpecVerificar: one account and the standalone token check, for requests *)
(* that carry every combination of cookie and Authorization header, before *)
(* and after the first token expires.                                      *)
(***************************************************************************)
\* the headers of SpecAutenticar, and a header that is a token with no
\* scheme before it
HeadersVerificar == Headers \cup {<<t>> : t \in Tokens}

CredenciaisVerificar ==
    {[cookie |-> c, authorization |-> h] : c \in Cookies, h \in HeadersVerificar}

NextVerificar ==
    \/ \E r \in Reqs : RegistroInicio(r, CorpoRegistro(Nome, EmailA, Senha1, Senha1))
    \/ \E r \in Reqs : RegistroInserir(r)
    \/ \E r \in Reqs : LoginInicio(r, CorpoLogin(EmailA, Senha1))
    \/ \E r \in Reqs : LoginFim(r)
    \/ \E r \in Reqs, cred \in CredenciaisVerificar : VerificarToken(r, cred)
    \/ Tick(InstantesAcesso)

SpecVerificar == InitAcesso /\ [][NextVerificar]_vars

(***************************************************************************)
(* SpecQuadro: the operations of the API on a table that holds one account *)
(* at the start and in which a second one registers; both log in, read     *)
(* their profile, check their token, change their password, and companies  *)
(* are created.  Nothing but the API touches the datastore.                *)
(***************************************************************************)
InitQuadro ==
    /\ usuarios = {ContaA}
    /\ usuarios_id_seq = 2
    /\ empresas = {}
    /\ empresas_id_seq = 1
    /\ emitidos = {}
    /\ agora = 0
    /\ JWT_EXPIRES_IN = ""
    /\ contatos = {}
    /\ contatos_id_seq = 1
    /\ NODE_ENV = ""
    /\ principal = "server.js"
    /\ processo = "executando"
    /\ diario = {}
    /\ pc = [r \in Reqs |-> "livre"]
    /\ ctx = [r \in Reqs |-> Ocioso]
    /\ ultimo = Nenhum

CorposLoginQuadro == {CorpoLogin(EmailA, Senha1), CorpoLogin(EmailB, Senha1)}

NextQuadro ==
    \/ \E r \in Reqs : RegistroInicio(r, CorpoRegistro(Nome2, EmailB, Senha1, Senha1))
    \/ \E r \in Reqs : RegistroInserir(r)
    \/ \E r \in Reqs, corpo \in CorposLoginQuadro : LoginInicio(r, corpo)
    \/ \E r \in Reqs : LoginFim(r)
    \/ \E r \in Reqs, cred \in Credenciais : Perfil(r, cred)
    \/ \E r \in Reqs, cred \in Credenciais : VerificarToken(r, cred)
    \/ \E r \in Reqs, cred \in Credenciais :
          AlterarSenhaInicio(r, cred, CorpoSenha(Senha1, Senha2, Senha2))
    \/ \E r \in Reqs : AlterarSenhaAtualizar(r)
    \/ \E r \in Reqs, corpo \in CorposEmpresa :
          EmpresaCriarInicio(r, SemCredencial, corpo)
    \/ \E r \in Reqs : EmpresaCriarInserir(r)

SpecQuadro == InitQuadro /\ [][NextQuadro]_vars

(***************************************************************************)
(* SpecSegredo: the six endpoints of routes/auth.js, with bodies that pass *)
(* and bodies that fail, on a table that holds one account at the start.   *)
(***************************************************************************)
CorposRegistroSegredo ==
    {CorpoRegistro(Nome2, EmailB, Senha1, Senha1),
     CorpoRegistro(Nome2, EmailA, Senha2, Senha2),
     CorpoRegistro(Nome2, EmailB, SenhaCurta, SenhaCurta)}

CorposLoginSegredo ==
    {CorpoLogin(EmailA, Senha1), CorpoLogin(EmailB, Senha1),
     CorpoLogin(EmailB, Indefinido)}

CorposSenhaSegredo ==
    {CorpoSenha(Senha1, Senha2, Senha2), CorpoSenha(Senha1, Senha2, Senha1)}

\* the credentials of a request: none, or a token login issued
CredenciaisSegredo == {SemCredencial} \cup {ComBearer(t) : t \in Tokens}

\* the plaintexts the bodies above carry
SenhasSegredo == {SenhaCurta, Senha1, Senha2}

NextSegredo ==
    \/ \E r \in Reqs, corpo \in CorposRegistroSegredo : RegistroInicio(r, corpo)
    \/ \E r \in Reqs : RegistroInserir(r)
    \/ \E r \in Reqs, corpo \in CorposLoginSegredo : LoginInicio(r, corpo)
    \/ \E r \in Reqs : LoginFim(r)
    \/ \E r \in Reqs, cred \in CredenciaisSegredo : Perfil(r, cred)
    \/ \E r \in Reqs, cred \in CredenciaisSegredo : VerificarToken(r, cred)
    \/ \E r \in Reqs, cred \in CredenciaisSegredo : ListarUsuarios(r, cred)
    \/ \E r \in Reqs, cred \in CredenciaisSegredo, corpo \in CorposSenhaSegredo :
          AlterarSenhaInicio(r, cred, corpo)
    \/ \E r \in Reqs : AlterarSenhaAtualizar(r)

SpecSegredo == InitQuadro /\ [][NextSegredo]_vars

(***************************************************************************)
(* SpecValidacao: the six handlers that validate a body (registration,     *)
(* login, password change, creation of a company, creation and update of a *)
(* contact), each with bodies that pass and bodies that fail every one of  *)
(* its validations.  The account of the table logged in before the server  *)
(* started and presents the token of that login.  The login whose body     *)
(* passes is of an email that no account has, and ends at its SELECT.      *)
(***************************************************************************)
\* (15) 99999-9999
TelefoneA ==
    <<"(", "1", "5", ")", " ", "9", "9", "9", "9", "9", "-", "9", "9", "9", "9">>
\* 99998888
TelefoneCurto == <<"9", "9", "9", "9", "8", "8", "8", "8">>
TelefoneRuim == <<"1", "2", "3">>
TelefoneLetras == <<"9", "9", "9", "9", "-", "8", "8", "8", "x">>

CidadeSP == <<"S", "P">>
NomeCurto == <<"A", "b">>

CorpoContato(nome, email, telefone, cidade, tipo) ==
    [nome |-> nome, email |-> email, telefone |-> telefone, cidade |-> cidade,
     tipo |-> tipo]

\* one body for each validation of POST /api/contato that fails (two for
\* the telephone), and one that passes
CorposContatoTodos ==
    {CorpoContato(Indefinido, EmailA, Indefinido, Indefinido, Indefinido),
     CorpoContato(Nome, EmailSemPonto, Indefinido, Indefinido, Indefinido),
     CorpoContato(Nome, EmailA, TelefoneRuim, Indefinido, Indefinido),
     CorpoContato(Nome, EmailA, TelefoneLetras, Indefinido, Indefinido),
     CorpoContato(NomeCurto, EmailA, TelefoneCurto, Indefinido, Indefinido),
     CorpoContato(Nome, EmailA, TelefoneA, CidadeSP, Cliente)}

\* bodies of PUT /api/contato/:id
CorposContatoAtualizar ==
    {CorpoContato(Nome, Vazio, TelefoneRuim, Indefinido, Indefinido),
     CorpoContato(Nome, EmailA, TelefoneA, CidadeSP, Cliente)}

CorposRegistroValidacao ==
    {CorpoRegistro(Nome2, Indefinido, Senha1, Senha1),
     CorpoRegistro(Nome2, EmailB, Senha1, SenhaCurta),
     CorpoRegistro(Nome2, EmailB, SenhaCurta, SenhaCurta),
     CorpoRegistro(Nome2, EmailSemPonto, Senha1, Senha1),
     CorpoRegistro(Nome2, EmailB, Senha1, Senha1)}

CorposLoginValidacao ==
    {CorpoLogin(Indefinido, Senha1), CorpoLogin(EmailA, Vazio),
     CorpoLogin(EmailAMaiusc, Senha1)}

CorposSenhaValidacao ==
    {CorpoSenha(Indefinido, Senha2, Senha2), CorpoSenha(Senha1, Senha2, SenhaCurta),
     CorpoSenha(Senha1, SenhaCurta, SenhaCurta), CorpoSenha(Senha1, Senha2, Senha2)}

CorposEmpresaValidacao ==
    {CorpoEmpresa(Vazio, CnpjA), CorpoEmpresa(Nome, CnpjCurto),
     CorpoEmpresa(Nome, CnpjA)}

CredenciaisAntigas == {SemCredencial, ComBearer(TokenDe(ContaA))}

NextValidacao ==
    \/ \E r \in Reqs, corpo \in CorposRegistroValidacao : RegistroInicio(r, corpo)
    \/ \E r \in Reqs : RegistroInserir(r)
    \/ \E r \in Reqs, corpo \in CorposLoginValidacao : LoginInicio(r, corpo)
    \/ \E r \in Reqs, cred \in CredenciaisAntigas, corpo \in CorposSenhaValidacao :
          AlterarSenhaInicio(r, cred, corpo)
    \/ \E r \in Reqs : AlterarSenhaAtualizar(r)
    \/ \E r \in Reqs, corpo \in CorposEmpresaValidacao :
          EmpresaCriarInicio(r, SemCredencial, corpo)
    \/ \E r \in Reqs : EmpresaCriarInserir(r)
    \/ \E r \in Reqs, corpo \in CorposContatoTodos :
          ContatoCriar(r, SemCredencial, corpo)
    \/ \E r \in Reqs, cred \in CredenciaisAntigas, id \in 1..MaxIdContato,
          corpo \in CorposContatoAtualizar :
          ContatoAtualizar(r, cred, id, corpo)

SpecValidacao == InitQuadro /\ [][NextValidacao]_vars

(***************************************************************************)
(* SpecFalha: the handlers over a datastore that can reject any statement. *)
(***************************************************************************)
\* the body of PUT /api/empresas/:id without the field ativo, and with it
CorpoEmpresaAtualizar(titulo) ==
    [titulo |-> titulo, nome |-> Nome2, setor |-> Nome, email |-> EmailB]

ComAtivo(corpo, ativo) ==
    [titulo |-> corpo.titulo, nome |-> corpo.nome, setor |-> corpo.setor,
     email |-> corpo.email, ativo |-> ativo]

\* the query string of GET /api/contato without filters
SemFiltro == [cidade |-> Indefinido, tipo |-> Indefinido]

ContatoValido == CorpoContato(Nome, EmailA, TelefoneA, CidadeSP, Cliente)

\* a body with which a request of each handler reaches its first statement
CorpoQuePassa(op) ==
    CASE op = "registro" -> CorpoRegistro(Nome2, EmailB, Senha1, Senha1)
      [] op = "login" -> CorpoLogin(EmailA, Senha1)
      [] op = "alterar_senha" -> CorpoSenha(Senha1, Senha2, Senha2)
      [] op = "empresa_criar" -> CorpoEmpresa(Nome, CnpjA)
      [] op = "empresa_atualizar" -> CorpoEmpresaAtualizar(Nome)
      [] op = "contato_criar" -> ContatoValido
      [] op = "contato_atualizar" -> ContatoValido
      [] op = "contato_listar" -> SemFiltro
      [] OTHER -> SemCorpo

\* the token of the login of the account of the table before the server
\* started
CredencialDeA == ComBearer(TokenDe(ContaA))

NextFalha ==
    \/ \E r \in Reqs :
          AlterarSenhaInicio(r, CredencialDeA, CorpoQuePassa("alterar_senha"))
    \/ \E r \in Reqs : AlterarSenhaAtualizar(r)
    \/ \E r \in Reqs : EmpresaCriarInicio(r, SemCredencial, CorpoQuePassa("empresa_criar"))
    \/ \E r \in Reqs : EmpresaCriarInserir(r)
    \/ \E r \in Reqs, id \in 1..MaxIdEmpresa :
          EmpresaAtualizarInicio(r, CredencialDeA, id,
                                 CorpoQuePassa("empresa_atualizar"))
    \/ \E r \in Reqs : EmpresaAtualizarFim(r)
    \/ \E r \in Reqs, op \in ComConsulta :
          FalhaNaPrimeiraConsulta(r, op, CredencialDeA, CorpoQuePassa(op))
    \/ \E r \in Reqs : FalhaNaSegundaConsulta(r)

SpecFalha == InitQuadro /\ [][NextFalha]_vars

(***************************************************************************)
(* SpecListas: the three collection endpoints, on tables to which users,   *)
(* contacts and companies are added through the API.                       *)
(***************************************************************************)
\* the query strings of GET /api/contato
Filtros ==
    {SemFiltro, [cidade |-> Indefinido, tipo |-> Cliente],
     [cidade |-> <<"s", "p">>, tipo |-> Indefinido],
     [cidade |-> <<"R", "J">>, tipo |-> Nome]}

CorposContatoListas ==
    {ContatoValido, CorpoContato(Nome2, EmailB, Indefinido, Indefinido, Nome)}

NextListas ==
    \/ \E r \in Reqs : RegistroInicio(r, CorpoQuePassa("registro"))
    \/ \E r \in Reqs : RegistroInserir(r)
    \/ \E r \in Reqs : EmpresaCriarInicio(r, SemCredencial, CorpoQuePassa("empresa_criar"))
    \/ \E r \in Reqs : EmpresaCriarInserir(r)
    \/ \E r \in Reqs, corpo \in CorposContatoListas :
          ContatoCriar(r, SemCredencial, corpo)
    \/ \E r \in Reqs, cred \in CredenciaisAntigas : ListarUsuarios(r, cred)
    \/ \E r \in Reqs, cred \in CredenciaisAntigas, filtro \in Filtros :
          ContatoListar(r, cred, filtro)
    \/ \E r \in Reqs, cred \in CredenciaisAntigas : EmpresaListar(r, cred)

SpecListas == InitQuadro /\ [][NextListas]_vars

(***************************************************************************)
(* SpecProcesso: a server started from either file, in every mode, that    *)
(* serves requests until the process ends.                                 *)
(***************************************************************************)
Modos == {"", "development", "production"}

InitProcesso ==
    /\ usuarios = {ContaA}
    /\ usuarios_id_seq = 2
    /\ empresas = {}
    /\ empresas_id_seq = 1
    /\ emitidos = {}
    /\ agora = 0
    /\ JWT_EXPIRES_IN = ""
    /\ contatos = {}
    /\ contatos_id_seq = 1
    /\ NODE_ENV \in Modos
    /\ principal \in Principais
    /\ processo = "executando"
    /\ diario = {}
    /\ pc = [r \in Reqs |-> "livre"]
    /\ ctx = [r \in Reqs |-> Ocioso]
    /\ ultimo = Nenhum

\* the requests are served while the process runs
NextProcesso ==
    \/ /\ processo = "executando"
       /\ \/ \E r \in Reqs : RegistroInicio(r, CorpoQuePassa("registro"))
          \/ \E r \in Reqs : RegistroInserir(r)
          \/ \E r \in Reqs : ContatoCriar(r, SemCredencial, ContatoValido)
          \/ \E r \in Reqs, cred \in CredenciaisAntigas : ListarUsuarios(r, cred)
    \/ \E evento \in Eventos : ErroDeProcesso(evento)

SpecProcesso == InitProcesso /\ [][NextProcesso]_vars

(***************************************************************************)
(* SpecCnpj: companies are created, with CNPJs written with and without    *)
(* punctuation, updated with bodies that carry a CNPJ of their own, and    *)
(* deleted.                                                                *)
(***************************************************************************)
CnpjB == <<"9", "8", "7", "6", "5", "4", "3", "2", "0", "0", "0", "1", "8", "0">>

CorposEmpresaCnpj ==
    {CorpoEmpresa(Nome, CnpjA), CorpoEmpresa(Nome, CnpjAFormatado),
     CorpoEmpresa(Nome, CnpjB), CorpoEmpresa(Nome, CnpjCurto)}

\* a body of PUT /api/empresas/:id that carries a cnpj
CorpoAtualizarComCnpj ==
    [titulo |-> Nome2, nome |-> Nome2, setor |-> Nome, cnpj |-> CnpjCurto,
     email |-> EmailB, ativo |-> FALSE]

NextCnpj ==
    \/ \E r \in Reqs, corpo \in CorposEmpresaCnpj :
          EmpresaCriarInicio(r, SemCredencial, corpo)
    \/ \E r \in Reqs : EmpresaCriarInserir(r)
    \/ \E r \in Reqs, id \in 1..MaxIdEmpresa :
          EmpresaAtualizarInicio(r, CredencialDeA, id, CorpoAtualizarComCnpj)
    \/ \E r \in Reqs : EmpresaAtualizarFim(r)
    \/ \E r \in Reqs, id \in 1..MaxIdEmpresa : EmpresaDeletar(r, CredencialDeA, id)

SpecCnpj == InitQuadro /\ [][NextCnpj]_vars

(***************************************************************************)
(* SpecConcorrente: the account of the table changes its password in       *)
(* concurrent requests that all supply the password it has at the start,   *)
(* and logs in.                                                            *)
(***************************************************************************)
Senha3 == <<"1", "2", "3", "4", "5", "6">>

CorposSenhaConcorrente ==
    {CorpoSenha(Senha1, Senha2, Senha2), CorpoSenha(Senha1, Senha3, Senha3)}

CorposLoginConcorrente ==
    {CorpoLogin(EmailA, Senha1), CorpoLogin(EmailA, Senha2),
     CorpoLogin(EmailA, Senha3)}

NextConcorrente ==
    \/ \E r \in Reqs, corpo \in CorposSenhaConcorrente :
          AlterarSenhaInicio(r, CredencialDeA, corpo)
    \/ \E r \in Reqs : AlterarSenhaAtualizar(r)
    \/ \E r \in Reqs, corpo \in CorposLoginConcorrente : LoginInicio(r, corpo)
    \/ \E r \in Reqs : LoginFim(r)

SpecConcorrente == InitQuadro /\ [][NextConcorrente]_vars

(***************************************************************************)
(* SpecErros: every handler of the API, with requests that it refuses (no  *)
(* token, a body that fails a validation, a wrong password, an inactive    *)
(* account, an email or a CNPJ that is taken, an id that no row has) next  *)
(* to requests that write: contacts are created, updated and deleted and   *)
(* companies are updated.  At the start the tables hold an active and an   *)
(* inactive account, a company and a contact.                              *)
(***************************************************************************)
ContaInativa == [ContaB EXCEPT !.ativo = FALSE]

\* the tables after one POST /api/empresas and one POST /api/contato
EmpresasIniciais == InsertEmpresa({}, 1, CorpoEmpresa(Nome, CnpjA)).tabela
ContatosIniciais == InsertContato({}, 1, ContatoValido).tabela

\* no email, and the email of an account of the table
CorposRegistroErros ==
    {CorpoRegistro(Nome2, Indefinido, Senha1, Senha1),
     CorpoRegistro(Nome, EmailA, Senha1, Senha1)}

\* no email, an email that no account has, a wrong password, and the
\* inactive account
CorposLoginErros ==
    {CorpoLogin(Indefinido, Senha1), CorpoLogin(EmailAMaiusc, Senha1),
     CorpoLogin(EmailA, Senha2), CorpoLogin(EmailB, Senha1)}

\* a confirmation that differs, and a wrong current password
CorposSenhaErros ==
    {CorpoSenha(Senha1, Senha2, SenhaCurta), CorpoSenha(Senha2, Senha1, Senha1)}

\* no title, and the CNPJ of the company of the table
CorposEmpresaErros == {CorpoEmpresa(Vazio, CnpjA), CorpoEmpresa(Nome, CnpjA)}

\* an id that no company has: the table holds the company of the start only
IdSemEmpresa == MaxIdEmpresa

CorposContatoErros ==
    {CorpoContato(Nome, EmailSemPonto, Indefinido, Indefinido, Indefinido),
     ContatoValido}

CorposContatoAtualizarErros ==
    {CorpoContato(Nome, Vazio, Indefinido, Indefinido, Indefinido), ContatoValido}

InitErros ==
    /\ usuarios = {ContaA, ContaInativa}
    /\ usuarios_id_seq = 3
    /\ empresas = EmpresasIniciais
    /\ empresas_id_seq = 2
    /\ emitidos = {}
    /\ agora = 0
    /\ JWT_EXPIRES_IN = ""
    /\ contatos = ContatosIniciais
    /\ contatos_id_seq = 2
    /\ NODE_ENV = ""
    /\ principal = "server.js"
    /\ processo = "executando"
    /\ diario = {}
    /\ pc = [r \in Reqs |-> "livre"]
    /\ ctx = [r \in Reqs |-> Ocioso]
    /\ ultimo = Nenhum

NextErros ==
    \/ \E r \in Reqs, corpo \in CorposRegistroErros : RegistroInicio(r, corpo)
    \/ \E r \in Reqs, corpo \in CorposLoginErros : LoginInicio(r, corpo)
    \/ \E r \in Reqs : LoginFim(r)
    \/ \E r \in Reqs : Perfil(r, SemCredencial)
    \/ \E r \in Reqs : VerificarToken(r, SemCredencial)
    \/ \E r \in Reqs : ListarUsuarios(r, SemCredencial)
    \/ \E r \in Reqs, cred \in CredenciaisAntigas, corpo \in CorposSenhaErros :
          AlterarSenhaInicio(r, cred, corpo)
    \/ \E r \in Reqs, corpo \in CorposEmpresaErros :
          EmpresaCriarInicio(r, SemCredencial, corpo)
    \/ \E r \in Reqs : EmpresaListar(r, SemCredencial)
    \/ \E r \in Reqs, cred \in CredenciaisAntigas : EmpresaBuscar(r, cred, IdSemEmpresa)
    \/ \E r \in Reqs, cred \in CredenciaisAntigas, id \in 1..MaxIdEmpresa :
          EmpresaAtualizarInicio(r, cred, id, CorpoEmpresaAtualizar(Nome))
    \/ \E r \in Reqs : EmpresaAtualizarFim(r)
    \/ \E r \in Reqs, cred \in CredenciaisAntigas : EmpresaDeletar(r, cred, IdSemEmpresa)
    \/ \E r \in Reqs, corpo \in CorposContatoErros :
          ContatoCriar(r, SemCredencial, corpo)
    \/ \E r \in Reqs : ContatoListar(r, SemCredencial, SemFiltro)
    \/ \E r \in Reqs, cred \in CredenciaisAntigas, id \in 1..MaxIdContato :
          ContatoBuscar(r, cred, id)
    \/ \E r \in Reqs, cred \in CredenciaisAntigas, id \in 1..MaxIdContato,
          corpo \in CorposContatoAtualizarErros :
          ContatoAtualizar(r, cred, id, corpo)
    \/ \E r \in Reqs, cred \in CredenciaisAntigas, id \in 1..MaxIdContato :
          ContatoDeletar(r, cred, id)

SpecErros == InitErros /\ [][NextErros]_vars

(***************************************************************************)
(* SpecAtivo: the table holds a company at the start and a second one is   *)
(* created; companies are updated with bodies that carry the active flag   *)
(* false and bodies that carry no active flag, under ids that have a       *)
(* company and ids that have none, and deleted.                            *)
(***************************************************************************)
CorposAtualizarAtivo ==
    {CorpoEmpresaAtualizar(Nome), ComAtivo(CorpoEmpresaAtualizar(Nome2), FALSE)}

InitAtivo ==
    /\ usuarios = {ContaA}
    /\ usuarios_id_seq = 2
    /\ empresas = EmpresasIniciais
    /\ empresas_id_seq = 2
    /\ emitidos = {}
    /\ agora = 0
    /\ JWT_EXPIRES_IN = ""
    /\ contatos = {}
    /\ contatos_id_seq = 1
    /\ NODE_ENV = ""
    /\ principal = "server.js"
    /\ processo = "executando"
    /\ diario = {}
    /\ pc = [r \in Reqs |-> "livre"]
    /\ ctx = [r \in Reqs |-> Ocioso]
    /\ ultimo = Nenhum

NextAtivo ==
    \/ \E r \in Reqs : EmpresaCriarInicio(r, SemCredencial, CorpoEmpresa(Nome, CnpjB))
    \/ \E r \in Reqs : EmpresaCriarInserir(r)
    \/ \E r \in Reqs, id \in 1..MaxIdEmpresa, corpo \in CorposAtualizarAtivo :
          EmpresaAtualizarInicio(r, CredencialDeA, id, corpo)
    \/ \E r \in Reqs : EmpresaAtualizarFim(r)
    \/ \E r \in Reqs, id \in 1..MaxIdEmpresa : EmpresaDeletar(r, CredencialDeA, id)

SpecAtivo == InitAtivo /\ [][NextAtivo]_vars

(***************************************************************************)
(* Properties of registration, checked under SpecRegistro.                 *)
(***************************************************************************)
EmailPresente(tabela, email) == \E u \in tabela : u.email = email

Ausente(campo) == campo = Vazio \/ campo = Indefinido

\* the checks of registration, numbered 1 to 5, that a body fails against
\* a table
RegistroFalhas(corpo, tabela) ==
    {n \in 1..5 :
        \/ n = 1 /\ (Ausente(corpo.nome) \/ Ausente(corpo.email)
                     \/ Ausente(corpo.senha))
        \/ n = 2 /\ corpo.senha # corpo.confirmarSenha
        \/ n = 3 /\ (Ausente(corpo.senha) \/ Len(corpo.senha) < 6)
        \/ n = 4 /\ ~EmailRegexTest(corpo.email)
        \/ n = 5 /\ EmailPresente(tabela, corpo.email)}

\* the response that belongs to each check
RegistroRespostaDaFalha(n) ==
    CASE n = 1 -> Resp(400, "Nome, email e senha sao obrigatorios")
      [] n = 2 -> Resp(400, "As senhas nao conferem")
      [] n = 3 -> Resp(400, "A senha deve ter no minimo 6 caracteres")
      [] n = 4 -> Resp(400, "Email invalido")
      [] n = 5 -> Resp(409, "Email ja cadastrado")

Menor(S) == CHOOSE n \in S : \A m \in S : n <= m

\* the rows of usuarios with this email
LinhasComEmail(email) == {u \in usuarios : u.email = email}

\* C3: the registration whose INSERT is rejected by the uniqueness
\* constraint on email (because a concurrent registration of the same email
\* inserted first) answers 409, never the generic 500.
C3_CorridaResponde409 ==
    (ultimo.op = "registro" /\ ultimo.erro = "unique_violation")
        => ultimo.resp.status = 409

\* two registrations of one unused email interleaved, and the one whose
\* INSERT the constraint rejected was answered 500
C3_Witness ==
    /\ ultimo.op = "registro"
    /\ ultimo.erro = "unique_violation"
    /\ ultimo.resp = Resp(500, "Erro ao registrar usuario")
    /\ Cardinality(LinhasComEmail(ultimo.corpo.email)) = 1

\* C4: in every reachable state, also after interleaved registrations, no
\* two rows of usuarios have the same email (compared exactly).
C4_EmailUnico ==
    \A u, v \in usuarios : u.email = v.email => u = v

\* two registrations of one email interleaved, the second INSERT was
\* rejected, and the table holds the email once next to its other-case twin
C4_Witness ==
    /\ ultimo.op = "registro"
    /\ ultimo.erro = "unique_violation"
    /\ EmailPresente(usuarios, EmailA)
    /\ EmailPresente(usuarios, EmailAMaiusc)

\* a step in which the registration handler answered before its INSERT (no
\* slot changes place), and one in which slot r went on to its INSERT
RegistroRespondeu == pc' = pc /\ ultimo'.op = "registro"
RegistroProsseguiu(r) == pc[r] = "livre" /\ pc'[r] = "registro_inserir"
RegistroInseriu(r) == pc[r] = "registro_inserir" /\ pc'[r] = "livre"

C6_PrimeiraFalhaVence ==
    [][/\ RegistroRespondeu
            => LET falhas == RegistroFalhas(ultimo'.corpo, usuarios)
               IN  falhas # {}
                      => ultimo'.resp = RegistroRespostaDaFalha(Menor(falhas))
       /\ \A r \in Reqs :
             RegistroProsseguiu(r)
                => RegistroFalhas(ctx'[r].corpo, usuarios) = {}]_vars

\* a body with a short password, another confirmation and a malformed email
\* that the table holds was answered with the error of check 2
C6_Witness ==
    /\ ultimo.op = "registro"
    /\ RegistroFalhas(ultimo.corpo, usuarios) = {2, 3, 4, 5}
    /\ ultimo.resp = Resp(400, "As senhas nao conferem")

(***************************************************************************)
(* Properties of login, checked under SpecLogin.                           *)
(***************************************************************************)
\* a step in which the login handler answered before bcrypt.compare, one in
\* which slot r went on to bcrypt.compare, and one in which slot r answered
\* after it
LoginRespondeu == pc' = pc /\ ultimo'.op = "login"
LoginProsseguiu(r) == pc[r] = "livre" /\ pc'[r] = "login_comparar"
LoginTerminou(r) == pc[r] = "login_comparar" /\ pc'[r] = "livre"

\* the rows of a table with exactly this email
LinhasDoEmail(tabela, email) == {u \in tabela : u.email = email}

\* C7: login answers 400 when the email or the password is missing; else 401
\* when no row has exactly that email; else 403 when the row is inactive;
\* else 401 when the password does not verify against the row's hash; else
\* 200 with a token signed with the server's key whose claim is the id,
\* name and email of the row, and a user summary with the same three values.
\* A token is issued only by a login whose row exists, is active and
\* verifies the password, and by every such login.
C7_OrdemDoLogin ==
    [][/\ LoginRespondeu
            => LET c == ultimo'.corpo
                   ls == LinhasDoEmail(usuarios, c.email)
               IN  /\ emitidos' = emitidos
                   /\ IF Ausente(c.email) \/ Ausente(c.senha)
                      THEN ultimo'.resp.status = 400
                      ELSE IF ls = {}
                      THEN ultimo'.resp.status = 401
                      ELSE /\ \A u \in ls : ~u.ativo
                           /\ ultimo'.resp.status = 403
       /\ \A r \in Reqs :
             LoginProsseguiu(r)
                => LET c == ctx'[r].corpo
                   IN  /\ ~Ausente(c.email) /\ ~Ausente(c.senha)
                       /\ ctx'[r].linha \in LinhasDoEmail(usuarios, c.email)
                       /\ ctx'[r].linha.ativo
                       /\ emitidos' = emitidos
       /\ \A r \in Reqs :
             LoginTerminou(r)
                => LET c == ctx[r].corpo
                       l == ctx[r].linha
                   IN  IF l.senha.bcrypt # c.senha
                       THEN /\ ultimo'.resp.status = 401
                            /\ emitidos' = emitidos
                       ELSE /\ ultimo'.resp.status = 200
                            /\ ultimo'.resp.token.forma = "jwt"
                            /\ ultimo'.resp.token.chave = JWT_SECRET
                            /\ ultimo'.resp.token.carga.id = l.id
                            /\ ultimo'.resp.token.carga.nome = l.nome
                            /\ ultimo'.resp.token.carga.email = l.email
                            /\ ultimo'.resp.usuario =
                                  [id |-> l.id, nome |-> l.nome, email |-> l.email]
                            /\ emitidos' =
                                  emitidos \cup {[token |-> ultimo'.resp.token,
                                                  quando |-> agora]}
       /\ emitidos' # emitidos
            => \E r \in Reqs : LoginTerminou(r) /\ ultimo'.resp.status = 200]_vars

\* a login to the account registered under the upper-case address was
\* answered 200 with a token that carries that account's name and address
C7_Witness ==
    /\ ultimo.op = "login"
    /\ ultimo.resp.status = 200
    /\ ultimo.resp.token.carga.email = EmailAMaiusc
    /\ ultimo.resp.token.carga.nome = Nome2
    /\ EmailPresente(usuarios, EmailA)

\* the response of the whole login handler to a body, run without
\* interruption against a table
LoginResposta(corpo, tabela) ==
    LET linhas == IF Falsy(corpo.email) \/ Falsy(corpo.senha) THEN {}
                  ELSE SelectUsuarioPorEmail(tabela, corpo.email)
        v == LoginDecidir(corpo, linhas)
    IN  IF v # SemResposta THEN v
        ELSE LoginResponder(corpo, CHOOSE u \in linhas : TRUE,
                            IF JWT_EXPIRES_IN = "" THEN "8h" ELSE JWT_EXPIRES_IN,
                            agora)

\* a login body with the email of an active account and a password that is
\* not the account's
SenhaErrada(corpo, tabela) ==
    /\ ~Ausente(corpo.email) /\ ~Ausente(corpo.senha)
    /\ \E u \in tabela : u.email = corpo.email /\ u.ativo /\ u.senha.bcrypt # corpo.senha

\* a login body with an email that no account has
SemConta(corpo, tabela) ==
    /\ ~Ausente(corpo.email) /\ ~Ausente(corpo.senha)
    /\ ~EmailPresente(tabela, corpo.email)

\* C8: in every state of the store, for every login with the email of an
\* active account and a wrong password and every login with an email that
\* has no account, the two responses are the same value (status 401, same
\* message, same fields); and every response of either kind that a login
\* sent is that value.
C8_Indistinguiveis ==
    /\ \A c1, c2 \in CorposLoginTodos :
          (SenhaErrada(c1, usuarios) /\ SemConta(c2, usuarios))
             => /\ LoginResposta(c1, usuarios) = LoginResposta(c2, usuarios)
                /\ LoginResposta(c1, usuarios).status = 401
    /\ (/\ ultimo.op = "login"
        /\ ~Ausente(ultimo.corpo.email) /\ ~Ausente(ultimo.corpo.senha)
        /\ \/ ultimo.linha = SemLinha
           \/ ultimo.linha.ativo /\ ultimo.linha.senha.bcrypt # ultimo.corpo.senha)
          => \A c2 \in CorposLoginTodos :
                SemConta(c2, usuarios)
                   => ultimo.resp = LoginResposta(c2, usuarios)

\* a login with the email of an active account and a wrong password was
\* answered, while another email has no account
C8_Witness ==
    /\ ultimo.op = "login"
    /\ ultimo.resp.status = 401
    /\ ultimo.linha # SemLinha
    /\ ultimo.linha.ativo
    /\ ultimo.linha.senha.bcrypt # ultimo.corpo.senha
    /\ \E c2 \in CorposLoginTodos : SemConta(c2, usuarios)

\* C9: a login with an email and a password, whose email is that of a row
\* with the active flag false, is answered 403 before the password is
\* compared, with no token in the response and none issued; it is never
\* answered 401.
C9_InativoRecebe403 ==
    [][/\ (/\ LoginRespondeu
           /\ ~Ausente(ultimo'.corpo.email) /\ ~Ausente(ultimo'.corpo.senha)
           /\ \E u \in usuarios : u.email = ultimo'.corpo.email /\ ~u.ativo)
            => /\ ultimo'.resp.status = 403
               /\ "token" \notin DOMAIN ultimo'.resp
               /\ emitidos' = emitidos
       /\ \A r \in Reqs :
             LoginProsseguiu(r)
                => ~\E u \in usuarios : u.email = ctx'[r].corpo.email /\ ~u.ativo]_vars

\* a login to a deactivated account with the account's password was
\* answered 403
C9_Witness ==
    /\ ultimo.op = "login"
    /\ ultimo.resp.status = 403
    /\ ~ultimo.linha.ativo
    /\ ultimo.linha.senha.bcrypt = ultimo.corpo.senha

(***************************************************************************)
(* Properties of the middleware, checked under SpecAcesso and SpecToken.   *)
(***************************************************************************)
\* a request that presented this credential, passed the middleware at time
\* quando and ran its handler with this req.usuario, did so with a token
\* that a login signed at or before that time, that had not expired then,
\* and whose claim is that req.usuario
PorTokenEmitido(cred, quando, usuario) ==
    \E e \in emitidos :
        /\ e.token = ExtrairToken(cred)
        /\ e.quando <= quando
        /\ quando \div 1000 < e.token.carga.exp
        /\ usuario = e.token.carga
        /\ \E u \in usuarios :
              /\ u.id = usuario.id
              /\ u.nome = usuario.nome
              /\ u.email = usuario.email

\* C1: the handler of a route behind autenticar ran, or is running, only
\* for a request whose token a login signed earlier and that had not
\* expired when the middleware ran, with req.usuario equal to the claim
\* that login put in the token (the id, name and email of the account); a
\* request without token, with a token no login signed or with an expired
\* token was answered 401 and did not run the handler.
C1_SoTokenEmitidoPassa ==
    /\ (ultimo.op \in Protegidas /\ ultimo.rodou)
          => PorTokenEmitido(ultimo.cred, ultimo.quando, ultimo.usuario)
    /\ \A r \in Reqs :
          pc[r] = "senha_atualizar"
             => PorTokenEmitido(ctx[r].cred, ctx[r].quando, ctx[r].usuario)
    /\ (ultimo.op \in Protegidas /\ ~ultimo.rodou)
          => /\ ultimo.resp.status = 401
             /\ ~PorTokenEmitido(ultimo.cred, ultimo.quando,
                                 ExtrairToken(ultimo.cred).carga)

\* a password change ran to its end for a request with an issued token,
\* after the clock moved
C1_Witness ==
    /\ ultimo.op = "alterar_senha"
    /\ ultimo.rodou
    /\ ultimo.resp.status = 200
    /\ ultimo.quando > 0
    /\ ExtrairToken(ultimo.cred) \in Tokens

\* C10 as stated: with the default expiration, a token that login issued at
\* time T is accepted by the middleware at every time before T + 8 hours and
\* rejected with 401 "Token expirado" at T + 8 hours and every later time.
C10_AceitoAteTMais8h ==
    JWT_EXPIRES_IN = ""
       => \A e \in emitidos :
             LET a == Autenticar(ComBearer(e.token), agora)
             IN  IF agora < e.quando + 8 * 3600 * 1000
                 THEN a.next
                 ELSE ~a.next /\ a.resp = Resp(401, "Token expirado")

\* C10, amended: with the default expiration, a token that login issued at
\* time T has iat = T in whole seconds and is accepted by the middleware
\* at every time whose whole second is before iat + 8 hours, and rejected
\* with 401 "Token expirado" from that second on.  Hence it is accepted at
\* every time up to T + 8 hours - 1 second (so at T + 1 minute), rejected at
\* T + 8 hours and every later time (so at T + 9 hours), and the requests
\* that presented it were answered so.
C10_AceitoAteIatMais8h ==
    JWT_EXPIRES_IN = ""
       => /\ \A e \in emitidos :
                LET a == Autenticar(ComBearer(e.token), agora)
                    iat == e.quando \div 1000
                IN  /\ e.token.carga.iat = iat
                    /\ IF agora \div 1000 < iat + 8 * 3600
                       THEN a.next /\ a.usuario = e.token.carga
                       ELSE ~a.next /\ a.resp = Resp(401, "Token expirado")
                    /\ agora <= e.quando + 8 * 3600 * 1000 - 1000 => a.next
                    /\ agora = e.quando + 60 * 1000 => a.next
                    /\ agora >= e.quando + 8 * 3600 * 1000 => ~a.next
                    /\ agora = e.quando + 9 * 3600 * 1000 => ~a.next
          /\ (ultimo.op = "perfil" /\ ExtrairToken(ultimo.cred) \in Tokens)
                => LET tok == ExtrairToken(ultimo.cred)
                   IN  IF agora \div 1000 < tok.carga.iat + 8 * 3600
                       THEN ultimo.rodou
                       ELSE ~ultimo.rodou /\ ultimo.resp = Resp(401, "Token expirado")

\* a request that presented a token issued at T = 0.5 s was answered 401
\* "Token expirado" half a second before T + 8 hours
C10_Witness ==
    /\ JWT_EXPIRES_IN = ""
    /\ contatos = {}
    /\ contatos_id_seq = 1
    /\ NODE_ENV = ""
    /\ principal = "server.js"
    /\ processo = "executando"
    /\ diario = {}
    /\ ultimo.op = "perfil"
    /\ ultimo.resp = Resp(401, "Token expirado")
    /\ \E e \in emitidos :
          /\ e.token = ExtrairToken(ultimo.cred)
          /\ e.quando = 500
          /\ agora = e.quando + 8 * 3600 * 1000 - 500

(***************************************************************************)
(* Properties of company creation, checked under SpecEmpresa.              *)
(***************************************************************************)
\* C2: POST /api/empresas is protected: a request whose credentials the
\* middleware would not let pass is answered 401, its handler does not run
\* and the table holds no company with the CNPJ of its body.
C2_CriarEmpresaProtegido ==
    (ultimo.op = "empresa_criar" /\ ~Autenticar(ultimo.cred, ultimo.quando).next)
       => /\ ultimo.resp.status = 401
          /\ ~ultimo.rodou
          /\ \A e \in empresas : e.cnpj # SoDigitos(ultimo.corpo.cnpj)

\* a request without cookie and without Authorization header was answered
\* 201 and the table holds the company of its body
C2_Witness ==
    /\ ultimo.op = "empresa_criar"
    /\ ultimo.cred = SemCredencial
    /\ ultimo.resp.status = 201
    /\ \E e \in empresas :
          e.id = ultimo.resp.id /\ e.cnpj = SoDigitos(ultimo.corpo.cnpj)

(***************************************************************************)
(* Properties of the token extraction and of the rejections of the         *)
(* middleware, checked under SpecAutenticar.                               *)
(***************************************************************************)
\* a token that a login signed and that has not expired at time t
Valido(token, t) ==
    \E e \in emitidos : e.token = token /\ t \div 1000 < token.carga.exp

\* a token is there: neither absent nor the empty string
NaoVazio(token) == token # SemToken /\ token # TokenVazio

\* the header is 'Bearer ' followed by something
HeaderBearer(h) == Len(h) >= 2 /\ h[1] = Texto("Bearer")

\* C11: when the accessToken cookie is present and not empty the middleware
\* decides on the cookie alone, whatever the Authorization header: the
\* request passes exactly when the cookie's token is valid, with the claim
\* of that token as req.usuario.  Only when the cookie yields no token does
\* it decide on the token of a 'Bearer ' header.  So an invalid or expired
\* cookie token with a valid Bearer token is answered 401, and a valid
\* cookie token with an invalid Bearer token passes.
C11_CookieAntesDoHeader ==
    ultimo.op = "perfil"
       => LET c == ultimo.cred.cookie
              h == ultimo.cred.authorization
          IN  IF NaoVazio(c)
              THEN /\ ultimo.rodou <=> Valido(c, ultimo.quando)
                   /\ ultimo.rodou => ultimo.usuario = c.carga
                   /\ ~ultimo.rodou => ultimo.resp.status = 401
              ELSE /\ ultimo.rodou <=> (HeaderBearer(h) /\ Valido(h[2], ultimo.quando))
                   /\ ultimo.rodou => ultimo.usuario = h[2].carga
                   /\ ~ultimo.rodou => ultimo.resp.status = 401

\* a request with an expired token in the cookie and a valid token in the
\* Bearer header was answered 401
C11_Witness ==
    /\ ultimo.op = "perfil"
    /\ ultimo.cred.cookie \in Tokens
    /\ ~Valido(ultimo.cred.cookie, ultimo.quando)
    /\ HeaderBearer(ultimo.cred.authorization)
    /\ Valido(ultimo.cred.authorization[2], ultimo.quando)
    /\ ~ultimo.rodou
    /\ ultimo.resp.status = 401

\* the token the request yields: the cookie when it is there, else what
\* follows 'Bearer ' in the header, else nothing
Apresentado(cred) ==
    IF NaoVazio(cred.cookie) THEN cred.cookie
    ELSE IF HeaderBearer(cred.authorization) /\ NaoVazio(cred.authorization[2])
    THEN cred.authorization[2]
    ELSE SemToken

\* the token is a JWT signed with the server's key
BemAssinado(token) == token.forma = "jwt" /\ token.chave = JWT_SECRET

\* C12: every request the middleware rejects is answered 401 with success
\* false and its handler does not run (no row is read); the message is
\* "Token nao fornecido" exactly when neither the cookie nor a 'Bearer '
\* header yields a non-empty token, "Token invalido" when the token yielded
\* is malformed or not signed with the server's key, and "Token expirado"
\* when it is signed with the server's key and past its expiration.
C12_MotivosDaRejeicao ==
    (ultimo.op = "perfil" /\ ~ultimo.rodou)
       => LET tok == Apresentado(ultimo.cred)
          IN  /\ ultimo.resp.status = 401
              /\ ~ultimo.resp.sucesso
              /\ ultimo.linha = SemLinha
              /\ ultimo.usuario = SemUsuario
              /\ (ultimo.resp.mensagem = "Token nao fornecido") <=> (tok = SemToken)
              /\ (tok # SemToken /\ ~BemAssinado(tok))
                    => ultimo.resp.mensagem = "Token invalido"
              /\ (tok # SemToken /\ BemAssinado(tok))
                    => /\ ultimo.quando \div 1000 >= tok.carga.exp
                       /\ ultimo.resp.mensagem = "Token expirado"

\* a request whose cookie holds a token of the server that has expired was
\* answered 401 "Token expirado", although its header holds a forged token
C12_Witness ==
    /\ ultimo.op = "perfil"
    /\ ~ultimo.rodou
    /\ ultimo.resp = Resp(401, "Token expirado")
    /\ ultimo.cred.cookie \in Tokens
    /\ ultimo.cred.authorization = Bearer(ForjadoExpirado)

(***************************************************************************)
(* Properties of the tokens of an account that is deactivated or changes   *)
(* its password, checked under SpecRevogacao.                              *)
(***************************************************************************)
\* the token has not reached its expiration at time t
NaoExpirou(token, t) == t \div 1000 < token.carga.exp

\* the middleware lets the token pass now, in the cookie and in the header
AceitoAgora(token) ==
    /\ Autenticar(ComBearer(token), agora).next
    /\ Autenticar(ComCookie(token), agora).next
    /\ Autenticar(ComBearer(token), agora).usuario = token.carga

\* C13: in every state in which an account is inactive, every token that
\* login issued for it and that has not reached its own expiration is let
\* pass by the middleware; and every request to the profile route that
\* presented such a token ran its handler, also when the row it then read
\* was inactive.
C13_DesativarNaoRevoga ==
    /\ \A u \in usuarios :
          ~u.ativo
             => \A e \in emitidos :
                   (e.token.carga.id = u.id /\ NaoExpirou(e.token, agora))
                      => AceitoAgora(e.token)
    /\ (/\ ultimo.op = "perfil"
        /\ ExtrairToken(ultimo.cred) \in Tokens
        /\ NaoExpirou(ExtrairToken(ultimo.cred), ultimo.quando))
          => /\ ultimo.rodou
             /\ ultimo.usuario = ExtrairToken(ultimo.cred).carga
             /\ ultimo.resp.status = 200

\* the profile request of a deactivated account, with a token issued to
\* it, ran and was answered 200 with active false
C13_Witness ==
    /\ ultimo.op = "perfil"
    /\ ultimo.rodou
    /\ ultimo.resp.status = 200
    /\ ~ultimo.resp.dados.ativo
    /\ ExtrairToken(ultimo.cred) \in Tokens
    /\ \E u \in usuarios : u.id = ultimo.usuario.id /\ ~u.ativo

\* the account's stored password is no longer the one it logged in with
SenhaAlterada(u) == u.senha.bcrypt # Senha1

\* C14: in every state in which the password of an account has been
\* changed, every token that a login with the old password issued for it
\* and that has not reached its expiration is let pass by the middleware;
\* the token that authenticated a successful change is let pass after it;
\* and every request to the profile route that presented an unexpired
\* issued token ran its handler, also when the row it read held the new
\* hash.
C14_AlterarSenhaNaoRevoga ==
    /\ \A u \in usuarios :
          SenhaAlterada(u)
             => \A e \in emitidos :
                   (e.token.carga.id = u.id /\ NaoExpirou(e.token, agora))
                      => AceitoAgora(e.token)
    /\ (/\ ultimo.op = "alterar_senha"
        /\ ultimo.resp.status = 200
        /\ NaoExpirou(ExtrairToken(ultimo.cred), agora))
          => /\ Autenticar(ultimo.cred, agora).next
             /\ \A u \in usuarios : u.id = ultimo.usuario.id => SenhaAlterada(u)
    /\ (/\ ultimo.op = "perfil"
        /\ ExtrairToken(ultimo.cred) \in Tokens
        /\ NaoExpirou(ExtrairToken(ultimo.cred), ultimo.quando))
          => ultimo.rodou /\ ultimo.linha # SemLinha

\* after a password change, the profile request with a token that a login
\* with the old password had issued ran and read the row with the new hash
C14_Witness ==
    /\ ultimo.op = "perfil"
    /\ ultimo.rodou
    /\ ultimo.resp.status = 200
    /\ ExtrairToken(ultimo.cred) \in Tokens
    /\ \E u \in usuarios :
          /\ u.id = ultimo.usuario.id
          /\ u.senha = BcryptHash(Senha2, saltRounds)

(***************************************************************************)
(* Properties of the password change, checked under SpecSenha.             *)
(***************************************************************************)
\* a step in which the password change answered before its UPDATE (no slot
\* changes place), one in which slot r went on to its UPDATE, and one in
\* which slot r ran its UPDATE
SenhaRespondeu == pc' = pc /\ ultimo'.op = "alterar_senha"
SenhaProsseguiu(r) == pc[r] = "livre" /\ pc'[r] = "senha_atualizar"
SenhaAtualizou(r) == pc[r] = "senha_atualizar" /\ pc'[r] = "livre"

\* the rows of the table with this id
LinhasDoId(tabela, id) == {u \in tabela : u.id = id}

\* C15: a password change whose handler runs answers 400 when one of the
\* three fields is missing; else 400 when the new password differs from its
\* confirmation; else 400 when the new password has fewer than 6
\* characters; else 404 when no row has the id of the caller's token; else
\* 401 when the current password does not verify against the stored hash;
\* only a request that passes all five goes on to the UPDATE.  Every step
\* that answers a password change with anything but 200, and every step
\* that goes on to the UPDATE, leaves every row of the table as it was.
C15_OrdemDaAlteracao ==
    [][/\ (SenhaRespondeu /\ ultimo'.rodou)
            => LET c == ultimo'.corpo
                   ls == LinhasDoId(usuarios, ultimo'.usuario.id)
               IN  IF Ausente(c.senhaAtual) \/ Ausente(c.novaSenha)
                      \/ Ausente(c.confirmarNovaSenha)
                   THEN ultimo'.resp = Resp(400, "Todos os campos sao obrigatorios")
                   ELSE IF c.novaSenha # c.confirmarNovaSenha
                   THEN ultimo'.resp = Resp(400, "As novas senhas nao conferem")
                   ELSE IF Len(c.novaSenha) < 6
                   THEN ultimo'.resp =
                           Resp(400, "A nova senha deve ter no minimo 6 caracteres")
                   ELSE IF ls = {}
                   THEN ultimo'.resp = Resp(404, "Usuario nao encontrado")
                   ELSE /\ \A u \in ls : ~BcryptCompare(c.senhaAtual, u.senha)
                        /\ ultimo'.resp = Resp(401, "Senha atual incorreta")
       /\ \A r \in Reqs :
             SenhaProsseguiu(r)
                => LET c == ctx'[r].corpo
                       ls == LinhasDoId(usuarios, ctx'[r].usuario.id)
                   IN  /\ ~Ausente(c.senhaAtual) /\ ~Ausente(c.novaSenha)
                       /\ ~Ausente(c.confirmarNovaSenha)
                       /\ c.novaSenha = c.confirmarNovaSenha
                       /\ Len(c.novaSenha) >= 6
                       /\ ls # {}
                       /\ \A u \in ls : BcryptCompare(c.senhaAtual, u.senha)
                       /\ usuarios' = usuarios
       /\ (ultimo'.op = "alterar_senha" /\ ultimo'.resp.status # 200)
            => usuarios' = usuarios
       /\ \A r \in Reqs : SenhaAtualizou(r) => ultimo'.resp.status = 200]_vars

\* a request with a short new password that differs from its confirmation
\* and a wrong current password was answered with the error of the
\* confirmation
C15_Witness ==
    /\ ultimo.op = "alterar_senha"
    /\ ultimo.rodou
    /\ ultimo.corpo = CorpoSenha(Senha2, SenhaCurta, Senha2)
    /\ ultimo.usuario.id = 1
    /\ ultimo.resp = Resp(400, "As novas senhas nao conferem")
    /\ \E u \in usuarios : u.id = 2 /\ u.senha = BcryptHash(Senha2, saltRounds)

(***************************************************************************)
(* Properties of login after a password change, checked under SpecTroca.   *)
(***************************************************************************)
\* C16: in the state that the UPDATE of a password change from O to N
\* (N different from O) by user u leaves, login for u with N is answered
\* 200 and login for u with O is answered 401, and login for every other
\* user, with every password, is answered as it was before the UPDATE.
C16_LoginDepoisDaTroca ==
    [][\A r \in Reqs :
          (SenhaAtualizou(r) /\ ctx[r].corpo.novaSenha # ctx[r].corpo.senhaAtual)
             => \A u \in usuarios' :
                   IF u.id = ctx[r].usuario.id
                   THEN /\ LoginResposta(CorpoLogin(u.email, ctx[r].corpo.novaSenha),
                                         usuarios').status = 200
                        /\ LoginResposta(CorpoLogin(u.email, ctx[r].corpo.senhaAtual),
                                         usuarios').status = 401
                   ELSE \A p \in SenhasTroca :
                           LoginResposta(CorpoLogin(u.email, p), usuarios')
                              = LoginResposta(CorpoLogin(u.email, p), usuarios)]_vars

\* the change from one 73-character password to another was answered 200,
\* and the account is active and login with the old one is answered 200
C16_Witness ==
    /\ ultimo.op = "alterar_senha"
    /\ ultimo.resp.status = 200
    /\ ultimo.corpo = CorpoSenha(SenhaLongaA, SenhaLongaB, SenhaLongaB)
    /\ \E u \in usuarios : u.id = ultimo.usuario.id /\ u.ativo
    /\ LoginResposta(CorpoLogin(EmailA, SenhaLongaA), usuarios).status = 200

(***************************************************************************)
(* Properties of login after registration, checked under                   *)
(* SpecRegistroLogin.                                                      *)
(***************************************************************************)
\* against this table, login with the email and this password is answered
\* 200 with a token, and login with the email and every other password is
\* answered 401
SoEstaSenhaEntra(email, senha, tabela) ==
    /\ LoginResposta(CorpoLogin(email, senha), tabela).status = 200
    /\ LoginResposta(CorpoLogin(email, senha), tabela).token.forma = "jwt"
    /\ \A outra \in SenhasTroca :
          outra # senha
             => LoginResposta(CorpoLogin(email, outra), tabela).status = 401

\* C17: in the state that the INSERT of a registration with email E and
\* password P answered 201 leaves, login with (E, P) is answered 200 with a
\* token and login with (E, P') is answered 401 for every P' different
\* from P; and this stays so over every step that leaves the row as it is
\* (active, with the same hash).
C17_SoASenhaRegistradaEntra ==
    [][/\ \A r \in Reqs :
             (RegistroInseriu(r) /\ ultimo'.resp.status = 201)
                => SoEstaSenhaEntra(ctx[r].corpo.email, ctx[r].corpo.senha, usuarios')
       /\ \A u \in usuarios, P \in SenhasTroca :
             (/\ u.ativo
              /\ u \in usuarios'
              /\ SoEstaSenhaEntra(u.email, P, usuarios))
                => SoEstaSenhaEntra(u.email, P, usuarios')]_vars

\* the account registered with a 73-character password and is active, and
\* a login with a password that differs from it in the last character was
\* answered 200 with a token
C17_Witness ==
    /\ ultimo.op = "login"
    /\ ultimo.resp.status = 200
    /\ ultimo.resp.token.forma = "jwt"
    /\ ultimo.corpo.senha = SenhaLongaB
    /\ \E u \in usuarios :
          /\ u.email = ultimo.corpo.email
          /\ u.ativo
          /\ u.senha = BcryptHash(SenhaLongaA, saltRounds)

(***************************************************************************)
(* Properties of the standalone token check, checked under SpecVerificar.  *)
(***************************************************************************)
\* what follows the first space of the Authorization header
DepoisDoEspaco(h) == IF Len(h) >= 2 THEN h[2] ELSE SemToken

\* C18: the standalone check decides on the Authorization header alone:
\* it answers 200 exactly when what follows the scheme in the header is a
\* token that a login signed and that has not expired, and then the user
\* of the response is exactly the id, name and email of the token's claim;
\* in every other case (no header, nothing after the scheme, a token that
\* is malformed, forged or expired) it answers 401, whatever the cookie
\* holds, so also when the cookie holds a valid token.
C18_VerificarSoHeader ==
    ultimo.op = "verificar_token"
       => LET tok == DepoisDoEspaco(ultimo.cred.authorization)
          IN  IF NaoVazio(tok) /\ Valido(tok, ultimo.quando)
              THEN /\ ultimo.resp.status = 200
                   /\ ultimo.resp.usuario =
                         [id |-> tok.carga.id, nome |-> tok.carga.nome,
                          email |-> tok.carga.email]
              ELSE /\ ultimo.resp.status = 401
                   /\ "usuario" \notin DOMAIN ultimo.resp

\* a request with a valid token in the cookie and no Authorization header
\* was answered 401
C18_Witness ==
    /\ ultimo.op = "verificar_token"
    /\ Valido(ultimo.cred.cookie, ultimo.quando)
    /\ ultimo.cred.authorization = SemHeader
    /\ ultimo.resp.status = 401

(***************************************************************************)
(* The flow registration, login, profile, checked under SpecFluxo.         *)
(***************************************************************************)
\* a step in which a profile request was answered
PerfilRespondeu == pc' = pc /\ ultimo'.op = "perfil"

\* C19: the INSERT of a successful registration leaves an active row with
\* the id of the 201 and the name and email of the body; a successful
\* login with the same credentials returns a token whose claim is the id,
\* name and email of that row; the profile request with that token, before
\* its expiration, is answered 200 with that id, name and email and active
\* true; the profile request with no token is answered 401; and the
\* profile request with that token at or after its expiration is answered
\* 401 "Token expirado".
C19_RegistroLoginPerfil ==
    [][/\ \A r \in Reqs :
             (RegistroInseriu(r) /\ ultimo'.resp.status = 201)
                => \E u \in usuarios' :
                      /\ u.id = ultimo'.resp.id
                      /\ u.nome = ctx[r].corpo.nome
                      /\ u.email = ctx[r].corpo.email
                      /\ u.ativo
       /\ \A r \in Reqs :
             (LoginTerminou(r) /\ ultimo'.resp.status = 200)
                => \E u \in usuarios :
                      /\ u.email = ctx[r].corpo.email
                      /\ BcryptCompare(ctx[r].corpo.senha, u.senha)
                      /\ ultimo'.resp.token.carga.id = u.id
                      /\ ultimo'.resp.token.carga.nome = u.nome
                      /\ ultimo'.resp.token.carga.email = u.email
       /\ PerfilRespondeu
            => LET tok == ExtrairToken(ultimo'.cred)
               IN  /\ ultimo'.cred = SemCredencial
                        => /\ ultimo'.resp.status = 401
                           /\ ultimo'.resp.mensagem = "Token nao fornecido"
                   /\ (tok \in Tokens /\ NaoExpirou(tok, agora))
                        => /\ ultimo'.resp.status = 200
                           /\ ultimo'.resp.dados =
                                 [id |-> tok.carga.id, nome |-> tok.carga.nome,
                                  email |-> tok.carga.email, ativo |-> TRUE]
                   /\ (tok \in Tokens /\ ~NaoExpirou(tok, agora))
                        => ultimo'.resp = Resp(401, "Token expirado")
       /\ \A u \in usuarios : u \in usuarios']_vars

\* after registration and login, and after the clock moved, the profile
\* request with the token was answered 200 with the row of the account
C19_Witness ==
    /\ ultimo.op = "perfil"
    /\ ultimo.resp.status = 200
    /\ ultimo.resp.dados = [id |-> 1, nome |-> Nome, email |-> EmailA, ativo |-> TRUE]
    /\ ExtrairToken(ultimo.cred) \in Tokens
    /\ agora > 0

(***************************************************************************)
(* What the operations of the API change in usuarios, checked under        *)
(* SpecQuadro.                                                             *)
(***************************************************************************)
\* C20: over every step of the API, every row of usuarios stays in the
\* table with its id, name, email and active flag; the table changes only
\* by the INSERT of a registration, which adds one row, and by the UPDATE
\* of a password change; and a row's hash changes only in the UPDATE of a
\* password change whose caller's token carries the id of that row.
C20_SoAlterarSenhaMudaOHash ==
    [][/\ \A u \in usuarios :
             \E v \in usuarios' :
                /\ v.id = u.id
                /\ v.nome = u.nome
                /\ v.email = u.email
                /\ v.ativo = u.ativo
       /\ \A v, w \in usuarios' : v.id = w.id => v = w
       /\ \A u \in usuarios :
             u \notin usuarios'
                => \E r \in Reqs :
                      /\ SenhaAtualizou(r)
                      /\ ultimo'.op = "alterar_senha"
                      /\ ExtrairToken(ctx[r].cred).carga.id = u.id
                      /\ [u EXCEPT !.senha = ctx[r].novaSenhaHash] \in usuarios'
       /\ usuarios' # usuarios
             => \/ \E r \in Reqs : SenhaAtualizou(r)
                \/ \E r \in Reqs :
                      /\ RegistroInseriu(r)
                      /\ usuarios \subseteq usuarios'
                      /\ Cardinality(usuarios') = Cardinality(usuarios) + 1]_vars

\* the second account changed its password: its row holds the new hash and
\* the row of the first account the hash it had
C20_Witness ==
    /\ ultimo.op = "alterar_senha"
    /\ ultimo.resp.status = 200
    /\ ultimo.usuario.id = 2
    /\ ContaA \in usuarios
    /\ [ContaB EXCEPT !.senha = BcryptHash(Senha2, saltRounds)] \in usuarios

(***************************************************************************)
(* Properties of the response bodies of routes/auth.js, checked under      *)
(* SpecSegredo.                                                            *)
(***************************************************************************)
OperacoesAuth ==
    {"registro", "login", "perfil", "alterar_senha", "verificar_token", "usuarios"}

\* the names of the fields of a request body and of a stored row that hold a
\* plaintext password or a hash
CamposDeSenha ==
    {"senha", "confirmarSenha", "senhaAtual", "novaSenha", "confirmarNovaSenha",
     "novaSenhaHash", "bcrypt"}

\* the names of all the fields of the response body of an answered request,
\* those of its nested objects, of the elements of its array and of the
\* payload of its token included
CamposDaResposta(registro) ==
    LET resp == registro.resp
    IN  DOMAIN resp
        \cup (IF "usuario" \in DOMAIN resp THEN DOMAIN resp.usuario ELSE {})
        \cup (IF "token" \in DOMAIN resp THEN DOMAIN resp.token.carga ELSE {})
        \cup (IF "dados" \notin DOMAIN resp THEN {}
              ELSE IF registro.op = "perfil" THEN DOMAIN resp.dados
              ELSE UNION {DOMAIN resp.dados[i] : i \in 1..Len(resp.dados)})

tabelas == <<usuarios, empresas, contatos>>

\* C22: in every handler a 400 is sent before any datastore access: the
\* step that answers a request with 400 is the first step of that request
\* (no request that was waiting for a statement is answered by it), the
\* request has issued no statement, and the tables and sequences are as they
\* were.
C22_400AntesDoBanco ==
    [][ultimo'.resp.status = 400
          => /\ ultimo'.consultas = 0
             /\ \A r \in Reqs : pc[r] # "livre" => pc'[r] = pc[r]
             /\ UNCHANGED <<tabelas, usuarios_id_seq, empresas_id_seq,
                            contatos_id_seq>>]_vars

\* the update of a contact that exists was answered 400 for its body, with a
\* token the middleware let pass
C22_Witness ==
    /\ ultimo.op = "contato_atualizar"
    /\ ultimo.rodou
    /\ ultimo.resp.status = 400
    /\ contatos # {}

(***************************************************************************)
(* Properties of the catch blocks, checked under SpecFalha.                *)
(***************************************************************************)
\* C23: when a statement of a handler is rejected by the datastore, the
\* request ends in that step with one response, which is 500 with the
\* message of the handler's catch block and nothing else (the same whatever
\* the error was), the rejected statement was the last one the request
\* issued (its first, or its second when the request was waiting for it),
\* and no table has changed.
C23_FalhaDoBancoResponde500 ==
    [][ultimo'.erro # "nenhum"
          => LET atendidos == {r \in Reqs : pc[r] # pc'[r]}
             IN  /\ ultimo'.resp = Resp(500, MensagemDoCatch(ultimo'.op))
                 /\ Cardinality(atendidos) <= 1
                 /\ \A r \in atendidos : pc'[r] = "livre"
                 /\ ultimo'.consultas = IF atendidos = {} THEN 1 ELSE 2
                 /\ UNCHANGED tabelas]_vars

\* the UPDATE of a password change timed out and the request was answered
\* 500; the stored hash is the one of before
C23_Witness ==
    /\ ultimo.op = "alterar_senha"
    /\ ultimo.erro = "query_timeout"
    /\ ultimo.consultas = 2
    /\ ultimo.resp.status = 500
    /\ \E u \in usuarios : u.id = 1 /\ u.senha = BcryptHash(Senha1, saltRounds)

(***************************************************************************)
(* Properties of the collection endpoints, checked under SpecListas.       *)
(***************************************************************************)
Colecoes == {"usuarios", "contato_listar", "empresa_listar"}

\* C24: every successful response of a collection endpoint (list of users,
\* of contacts, of companies) has a count field, total, equal to the number
\* of elements of its array dados.
C24_TotalIgualAoTamanho ==
    (ultimo.op \in Colecoes /\ ultimo.resp.status = 200)
       => /\ "total" \in DOMAIN ultimo.resp
          /\ ultimo.resp.total = Len(ultimo.resp.dados)

\* the list of companies was answered with one company and no count field
C24_Witness ==
    /\ ultimo.op = "empresa_listar"
    /\ ultimo.resp.status = 200
    /\ Len(ultimo.resp.dados) = 1
    /\ "total" \notin DOMAIN ultimo.resp

\* the lists of users and of contacts do carry the count of their array
C24_UsuariosEContatosTemTotal ==
    (ultimo.op \in {"usuarios", "contato_listar"} /\ ultimo.resp.status = 200)
       => /\ "total" \in DOMAIN ultimo.resp
          /\ ultimo.resp.total = Len(ultimo.resp.dados)

(***************************************************************************)
(* Properties of the process, checked under SpecProcesso.                  *)
(***************************************************************************)
\* C25: once an uncaught exception or an unhandled rejection has reached
\* the process, the process has ended when the mode is not production, and
\* is running, with the event logged, when the mode is production; and the
\* process ends for no other reason.
C25_EncerraForaDeProducao ==
    /\ diario # {} => (processo = "encerrado" <=> NODE_ENV # "production")
    /\ diario = {} => processo = "executando"

\* a server started from the second file in production mode has ended on an
\* unhandled rejection
C25_Witness ==
    /\ principal = "part_002"
    /\ NODE_ENV = "production"
    /\ diario = {"unhandledRejection"}
    /\ processo = "encerrado"

\* the statement holds of a server started from server.js
C25_ServerJsEncerraForaDeProducao ==
    principal = "server.js" => C25_EncerraForaDeProducao

(***************************************************************************)
(* Properties of the CNPJ of a company, checked under SpecCnpj.            *)
(***************************************************************************)
\* the text is 14 digits
QuatorzeDigitos(cnpj) ==
    Len(cnpj) = TamanhoCNPJ /\ \A i \in 1..Len(cnpj) : cnpj[i] \in Digitos

\* the step is the first one of a creation of a company whose body passes
\* the validations
CriacaoComecou ==
    /\ \A r \in Reqs : pc[r] # "livre" => pc'[r] = pc[r]
    /\ \/ ultimo'.op = "empresa_criar" /\ ultimo'.resp.status # 400
       \/ \E r \in Reqs : pc[r] = "livre" /\ pc'[r] = "empresa_inserir"

\* C26: after every step, every company of the table has a CNPJ of exactly
\* 14 digits and no two companies have the same CNPJ; a creation whose body
\* passes the validations and whose CNPJ, with the punctuation removed, is
\* in the table when the handler looks it up, is answered 409 and inserts
\* nothing; and no step (an update in particular) changes the CNPJ of a
\* company.
C26_CnpjDaEmpresa ==
    [][/\ \A e \in empresas' : QuatorzeDigitos(e.cnpj)
       /\ \A e1, e2 \in empresas' : e1.cnpj = e2.cnpj => e1 = e2
       /\ (CriacaoComecou /\ ultimo'.op = "empresa_criar")
             => /\ ultimo'.resp = Resp(409, "CNPJ ja cadastrado")
                /\ SelectEmpresaPorCnpj(empresas, SoDigitos(ultimo'.corpo.cnpj)) # {}
                /\ empresas' = empresas
       /\ (CriacaoComecou /\ ultimo'.op # "empresa_criar")
             => \E r \in Reqs :
                   /\ pc'[r] = "empresa_inserir" /\ pc[r] = "livre"
                   /\ SelectEmpresaPorCnpj(empresas,
                                           SoDigitos(ctx'[r].corpo.cnpj)) = {}
       /\ \A e1 \in empresas, e2 \in empresas' :
             e1.id = e2.id => e1.cnpj = e2.cnpj]_vars

\* two companies are in the table, one of them created with a CNPJ written
\* with punctuation and afterwards updated with a body that carries another
\* CNPJ, and a creation with the CNPJ of one of them was answered 409
C26_Witness ==
    /\ Cardinality(empresas) = 2
    /\ \E e \in empresas : e.nome = Nome2 /\ e.cnpj = CnpjA
    /\ ultimo.op = "empresa_criar"
    /\ ultimo.corpo.cnpj = CnpjAFormatado
    /\ ultimo.resp.status = 409

(***************************************************************************)
(* Properties of concurrent password changes, checked under                *)
(* SpecConcorrente.                                                        *)
(***************************************************************************)
\* C27: a password change overwrites the stored hash only when the current
\* password it supplied verifies against the hash that is stored at the
\* moment of the overwrite; so of two concurrent changes of one account
\* that both supply the original password, at most one is answered 200.
C27_SobrescreveSoComSenhaVigente ==
    [][(ultimo'.op = "alterar_senha" /\ ultimo'.resp.status = 200)
          => \A u \in usuarios :
                u.id = ultimo'.usuario.id
                   => BcryptCompare(ultimo'.corpo.senhaAtual, u.senha)]_vars

\* a change that verified the original password waits for its UPDATE while
\* the stored hash is already the one another change wrote, against which
\* the password it supplied does not verify
C27_Witness ==
    \E r \in Reqs :
        /\ pc[r] = "senha_atualizar"
        /\ ctx[r].corpo.senhaAtual = Senha1
        /\ \E u \in usuarios :
              /\ u.id = ctx[r].usuario.id
              /\ u.senha # ctx[r].linha.senha
              /\ ~BcryptCompare(ctx[r].corpo.senhaAtual, u.senha)

(***************************************************************************)
(* The standalone token check against the middleware, checked under        *)
(* SpecVerificar.                                                          *)
(***************************************************************************)
\* C28: for a request without cookie, the standalone check answers 200
\* exactly when the middleware, given the same Authorization header at the
\* same instant, would call next(); a valid token under a scheme other
\* than 'Bearer' is accepted by neither.
C28_MesmosHeadersQueOMiddleware ==
    (ultimo.op = "verificar_token" /\ TokenFalsy(ultimo.cred.cookie))
       => (ultimo.resp.status = 200
              <=> Autenticar(ultimo.cred, ultimo.quando).next)

\* a request without cookie whose header is 'Basic <token>', with a token
\* that a login signed and that has not expired, was answered 200
C28_Witness ==
    /\ ultimo.op = "verificar_token"
    /\ TokenFalsy(ultimo.cred.cookie)
    /\ Len(ultimo.cred.authorization) = 2
    /\ ultimo.cred.authorization[1] = Texto("Basic")
    /\ Valido(ultimo.cred.authorization[2], ultimo.quando)
    /\ ~Autenticar(ultimo.cred, ultimo.quando).next
    /\ ultimo.resp.status = 200

(***************************************************************************)
(* Refused requests and the tables, checked under SpecErros.               *)
(***************************************************************************)
QuatroXX == {400, 401, 403, 404, 409}

\* C29: a step in which a request is answered 400, 401, 403, 404 or 409
\* leaves the tables usuarios, empresas and contatos as they are; and a
\* step that changes one of the three tables is the step in which the
\* request that issued the statement is answered, with another status: so
\* a request that ends with one of these statuses has changed no table in
\* any of its steps.
C29_RecusaNaoAlteraTabelas ==
    [][/\ ultimo'.resp.status \in QuatroXX => tabelas' = tabelas
       /\ tabelas' # tabelas
             => /\ ultimo'.op # "nenhum"
                /\ ultimo'.resp.status \notin QuatroXX]_vars

\* a DELETE of a contact was answered 404 while the table holds a contact
C29_Witness ==
    /\ ultimo.op = "contato_deletar"
    /\ ultimo.resp.status = 404
    /\ ultimo.rodou
    /\ contatos # {}

(***************************************************************************)
(* The active flag of a company, checked under SpecAtivo.                  *)
(***************************************************************************)
\* ativo !== undefined ? ativo : true
AtivoDoCorpo(corpo) == IF "ativo" \in DOMAIN corpo THEN corpo.ativo ELSE TRUE

\* C30: when an update of a company is answered 200, the row of the id has
\* the active flag of the body, or true when the body has none (so a row
\* that was inactive is active again), and the rows of the other ids are as
\* they were; an update goes on to its UPDATE only under an id that has a
\* row, and under an id that has none it is answered 404 in a step that
\* leaves the table as it is.
C30_AtivoDaAtualizacao ==
    [][/\ (ultimo'.op = "empresa_atualizar" /\ ultimo'.resp.status = 200)
             => /\ \A e \in empresas' :
                      e.id = ultimo'.linha.id
                         => e.ativo = AtivoDoCorpo(ultimo'.corpo)
                /\ \A e \in empresas :
                      e.id = ultimo'.linha.id => \E e2 \in empresas' : e2.id = e.id
                /\ \A e \in empresas : e.id # ultimo'.linha.id => e \in empresas'
       /\ (ultimo'.op = "empresa_atualizar" /\ ultimo'.resp.status = 404)
             => empresas' = empresas
       /\ \A r \in Reqs :
             (pc[r] = "livre" /\ pc'[r] = "empresa_atualizar")
                => /\ SelectEmpresaPorId(empresas, ctx'[r].id) # {}
                   /\ empresas' = empresas]_vars

\* an update whose body has no active flag was answered 200 for a company
\* that was inactive when the handler looked it up, and the company is
\* active; the other company is in the table
C30_Witness ==
    /\ ultimo.op = "empresa_atualizar"
    /\ ultimo.resp.status = 200
    /\ "ativo" \notin DOMAIN ultimo.corpo
    /\ ~ultimo.linha.ativo
    /\ \E e \in empresas : e.id = ultimo.linha.id /\ e.ativo
    /\ Cardinality(empresas) = 2

====
